---- MODULE Spec2Model ----
(***************************************************************************)
(* A model of the S3 bucket client of src/s3/bucket.go: key validation,    *)
(* request construction, content hashing, signing, sending and response   *)
(* interpretation, with the Signer, the Connection and the Clock as        *)
(* nondeterministic collaborators.                                         *)
(*                                                                         *)
(* Go strings and byte slices are sequences of bytes (0..255).  An error   *)
(* is the record of its format string and the arguments formatted into it. *)
(***************************************************************************)
EXTENDS Integers, Sequences, FiniteSets, TLC

VARIABLES
    bucket,     \* the bucket struct: its name (conn, signer, clock are the environment)
    pc,         \* where the caller is: "idle", inside "Sign", inside "SendRequest", "done"
    op,         \* the method being executed
    key,        \* its key (prevKey for ListKeys)
    data,       \* StoreObject's data argument
    stream,     \* Put's io.ReadSeeker argument, as it is now
    given,      \* and as it was when Put was called
    nowRet,     \* what clock.Now() returned to this call
    req,        \* the http.Request the method built (shared with Signer and Conn)
    signLog,    \* the requests Sign was called with, as they were at the call
    signRet,    \* what each of those calls returned, and what it did to the request
    sendLog,    \* the requests SendRequest was called with, as they were at the call
    sendRet,    \* what each of those calls returned: an error or a response
    resp,       \* the http.Response SendRequest returned
    bodyReads,  \* how many times the method called ReadBody on it
    ret,        \* the values the method returned
    arg,        \* the argument of a function called on its own
    out,        \* and its result
    store,      \* the objects of a storage service, by request path
    history,    \* the calls a caller of the service has finished, oldest first
    pager,      \* a caller paging through ListKeys: its marker and what it has so far
    writers,    \* other clients of the service: what they wrote while the caller paged
    parked      \* a second caller of the bucket: its locals while the first one runs

vars == <<bucket, pc, op, key, data, stream, given, nowRet, req, signLog, signRet,
          sendLog, sendRet, resp, bodyReads, ret, arg, out, store, history, pager,
          writers, parked>>

----------------------------------------------------------------------------
(* Iteration.  Go loops over a 1024-byte key are run by repeated halving, *)
(* each half forced before the next starts.                               *)

RECURSIVE Repeat(_, _, _)
Repeat(Body(_), st, n) ==
    IF n <= 0 THEN st
    ELSE IF n = 1 THEN Body(st)
    ELSE LET mid == Repeat(Body, st, n \div 2)
         IN  IF mid.done \in BOOLEAN
             THEN Repeat(Body, mid, n - (n \div 2))
             ELSE mid

----------------------------------------------------------------------------
(* Errors *)

NilErr == [fmt |-> "<nil>", str |-> "", num |-> 0, bytes |-> <<>>]

Errorf(f, s, n, b) == [fmt |-> f, str |-> s, num |-> n, bytes |-> b]

----------------------------------------------------------------------------
(* unicode/utf8 *)

\* The size of the encoding a first byte announces, and the range its second
\* byte must lie in; size 0 for a byte that starts no encoding.
first(b) ==
    IF b < 128 THEN [size |-> 1, lo |-> 0, hi |-> 0]
    ELSE IF b >= 194 /\ b <= 223 THEN [size |-> 2, lo |-> 128, hi |-> 191]
    ELSE IF b = 224 THEN [size |-> 3, lo |-> 160, hi |-> 191]
    ELSE IF b >= 225 /\ b <= 236 THEN [size |-> 3, lo |-> 128, hi |-> 191]
    ELSE IF b = 237 THEN [size |-> 3, lo |-> 128, hi |-> 159]
    ELSE IF b >= 238 /\ b <= 239 THEN [size |-> 3, lo |-> 128, hi |-> 191]
    ELSE IF b = 240 THEN [size |-> 4, lo |-> 144, hi |-> 191]
    ELSE IF b >= 241 /\ b <= 243 THEN [size |-> 4, lo |-> 128, hi |-> 191]
    ELSE IF b = 244 THEN [size |-> 4, lo |-> 128, hi |-> 143]
    ELSE [size |-> 0, lo |-> 0, hi |-> 0]

IsCont(b) == b >= 128 /\ b <= 191

\* utf8.DecodeRuneInString(s[i:]) for 1 <= i <= Len(s): the rune and its width,
\* (RuneError = U+FFFD, 1) for an encoding that is invalid or cut short.
DecodeRuneInString(s, i) ==
    LET f == first(s[i])
        bad == [r |-> 65533, size |-> 1, ok |-> FALSE]
    IN  IF f.size = 0 THEN bad
        ELSE IF f.size = 1 THEN [r |-> s[i], size |-> 1, ok |-> TRUE]
        ELSE IF i + f.size - 1 > Len(s) THEN bad
        ELSE IF s[i + 1] < f.lo \/ s[i + 1] > f.hi THEN bad
        ELSE IF f.size = 2
             THEN [r |-> (s[i] - 192) * 64 + (s[i + 1] - 128), size |-> 2, ok |-> TRUE]
        ELSE IF ~IsCont(s[i + 2]) THEN bad
        ELSE IF f.size = 3
             THEN [r |-> (s[i] - 224) * 4096 + (s[i + 1] - 128) * 64 + (s[i + 2] - 128),
                   size |-> 3, ok |-> TRUE]
        ELSE IF ~IsCont(s[i + 3]) THEN bad
        ELSE [r |-> (s[i] - 240) * 262144 + (s[i + 1] - 128) * 4096
                    + (s[i + 2] - 128) * 64 + (s[i + 3] - 128),
              size |-> 4, ok |-> TRUE]

\* utf8.ValidString: one pass over the encodings, false at the first bad one.
ValidStringStep(s, st) ==
    IF st.done THEN st
    ELSE IF st.i > Len(s) THEN [st EXCEPT !.done = TRUE]
    ELSE LET d == DecodeRuneInString(s, st.i)
         IN  IF ~d.ok THEN [st EXCEPT !.done = TRUE, !.valid = FALSE]
             ELSE [st EXCEPT !.i = st.i + d.size]

ValidString(s) ==
    Repeat(LAMBDA st : ValidStringStep(s, st),
           [i |-> 1, done |-> FALSE, valid |-> TRUE], Len(s)).valid

----------------------------------------------------------------------------
(* fmt: the verb %U writes "U+" and the number in upper-case hexadecimal,  *)
(* with at least four digits.                                              *)

HexDigits == <<"0", "1", "2", "3", "4", "5", "6", "7", "8", "9", "A", "B", "C", "D", "E", "F">>

RECURSIVE Hex(_)
Hex(n) == IF n < 16 THEN HexDigits[n + 1] ELSE Hex(n \div 16) \o HexDigits[(n % 16) + 1]

FormatU(r) ==
    "U+" \o (IF r < 16 THEN "000" ELSE IF r < 256 THEN "00" ELSE IF r < 4096 THEN "0" ELSE "")
         \o Hex(r)

----------------------------------------------------------------------------
(* Key validation *)

MaxKeyBytes == 1024

\* isLegalXmlCharacter with no lower end to its first range.
isLegalXmlCharacter_NoLowerEnd(r) ==
    \/ r <= 57207
    \/ (r >= 57344 /\ r <= 65533)
    \/ (r >= 65536 /\ r <= 1114111)

isLegalXmlCharacter(r) ==
    \/ r = 9
    \/ r = 10
    \/ r = 13
    \/ (r >= 32 /\ r <= 57207)
    \/ (r >= 57344 /\ r <= 65533)
    \/ (r >= 65536 /\ r <= 1114111)

\* The loop going on after an illegal codepoint, so that the last one found
\* is the one reported.
RangeKeyStep_ReportsLast(s, st) ==
    IF st.done THEN st
    ELSE IF st.i > Len(s) THEN [st EXCEPT !.done = TRUE]
    ELSE LET d == DecodeRuneInString(s, st.i)
         IN  IF ~isLegalXmlCharacter(d.r)
             THEN [st EXCEPT !.i = st.i + d.size,
                             !.err = Errorf("Key contains invalid codepoint: %U", FormatU(d.r),
                                            d.r, <<>>)]
             ELSE [st EXCEPT !.i = st.i + d.size]

\* One turn of `for _, r := range key`: decode the rune at i, return from
\* validateKey if it is not legal, else move past it.
RangeKeyStep(s, st) ==
    IF st.done THEN st
    ELSE IF st.i > Len(s) THEN [st EXCEPT !.done = TRUE]
    ELSE LET d == DecodeRuneInString(s, st.i)
         IN  IF ~isLegalXmlCharacter(d.r)
             THEN [st EXCEPT !.done = TRUE,
                             !.err = Errorf("Key contains invalid codepoint: %U", FormatU(d.r),
                                           d.r, <<>>)]
             ELSE [st EXCEPT !.i = st.i + d.size]

\* validateKey without its loop over the codepoints.
validateKey_NoCodepointCheck(k) ==
    IF Len(k) > MaxKeyBytes
    THEN Errorf("Keys may be no longer than 1024 bytes.", "", 0, <<>>)
    ELSE IF ~ValidString(k)
    THEN Errorf("Keys must be valid UTF-8.", "", 0, <<>>)
    ELSE IF k = <<>>
    THEN Errorf("Keys must be non-empty.", "", 0, <<>>)
    ELSE NilErr

\* validateKey refusing keys of 1024 bytes too.
validateKey_OffByOne(k) ==
    IF Len(k) >= MaxKeyBytes
    THEN Errorf("Keys may be no longer than 1024 bytes.", "", 0, <<>>)
    ELSE IF ~ValidString(k)
    THEN Errorf("Keys must be valid UTF-8.", "", 0, <<>>)
    ELSE IF k = <<>>
    THEN Errorf("Keys must be non-empty.", "", 0, <<>>)
    ELSE Repeat(LAMBDA st : RangeKeyStep(k, st),
                [i |-> 1, done |-> FALSE, err |-> NilErr], Len(k)).err

\* validateKey without the check for UTF-8.
validateKey_NoUtf8Check(k) ==
    IF Len(k) > MaxKeyBytes
    THEN Errorf("Keys may be no longer than 1024 bytes.", "", 0, <<>>)
    ELSE IF k = <<>>
    THEN Errorf("Keys must be non-empty.", "", 0, <<>>)
    ELSE Repeat(LAMBDA st : RangeKeyStep(k, st),
                [i |-> 1, done |-> FALSE, err |-> NilErr], Len(k)).err

validateKey(k) ==
    IF Len(k) > MaxKeyBytes
    THEN Errorf("Keys may be no longer than 1024 bytes.", "", 0, <<>>)
    ELSE IF ~ValidString(k)
    THEN Errorf("Keys must be valid UTF-8.", "", 0, <<>>)
    ELSE IF k = <<>>
    THEN Errorf("Keys must be non-empty.", "", 0, <<>>)
    ELSE Repeat(LAMBDA st : RangeKeyStep(k, st),
                [i |-> 1, done |-> FALSE, err |-> NilErr], Len(k)).err

----------------------------------------------------------------------------
(* time: a Time is an instant (seconds since the Unix epoch) shown in a    *)
(* zone (its offset east of UTC in seconds, and its abbreviation).         *)

UTC(t) == [sec |-> t.sec, off |-> 0, zone |-> "UTC"]

WeekdayNames == <<"Sun", "Mon", "Tue", "Wed", "Thu", "Fri", "Sat">>

MonthNames ==
    <<"Jan", "Feb", "Mar", "Apr", "May", "Jun", "Jul", "Aug", "Sep", "Oct", "Nov", "Dec">>

\* The civil date of the day `z` days after 1 January 1970.
CivilFromDays(z) ==
    LET zz  == z + 719468
        era == zz \div 146097
        doe == zz - era * 146097
        yoe == (doe - (doe \div 1460) + (doe \div 36524) - (doe \div 146096)) \div 365
        doy == doe - (365 * yoe + (yoe \div 4) - (yoe \div 100))
        mp  == (5 * doy + 2) \div 153
        d   == doy - ((153 * mp + 2) \div 5) + 1
        m   == IF mp < 10 THEN mp + 3 ELSE mp - 9
        y   == yoe + era * 400 + (IF m <= 2 THEN 1 ELSE 0)
    IN  [year |-> y, month |-> m, day |-> d]

\* t.Format(time.RFC1123), "Mon, 02 Jan 2006 15:04:05 MST": the fields of the
\* text, computed from the instant as the zone shows it.
FormatRFC1123(t) ==
    LET abs  == t.sec + t.off
        days == abs \div 86400
        rem  == abs % 86400
        date == CivilFromDays(days)
    IN  [wday |-> WeekdayNames[((days + 4) % 7) + 1],
         day  |-> date.day,
         mon  |-> MonthNames[date.month],
         year |-> date.year,
         hh   |-> rem \div 3600,
         mm   |-> (rem % 3600) \div 60,
         ss   |-> rem % 60,
         zone |-> t.zone]

\* The Date header in the zone of the clock.
DateHeader_LocalZone(now) == FormatRFC1123(now)

\* b.clock.Now().UTC().Format(sys_time.RFC1123)
DateHeader(now) == FormatRFC1123(UTC(now))

----------------------------------------------------------------------------
(* crypto/md5 and encoding/base64: a digest is the term md5(bytes), its    *)
(* base64 text the term base64(digest); the empty string is <<>>.          *)

Sum(b) == [md5 |-> b]

EncodeToString(d) == <<"base64", d>>

----------------------------------------------------------------------------
(* io.ReadSeeker: the content, the read position, the outcomes of the      *)
(* Seek calls to come (TRUE: the call fails; none left: it succeeds) and   *)
(* the position at which Read fails (-1: never).                           *)

StreamErr == Errorf("%s", "stream failure", 0, <<>>)

NewReader(b) == [content |-> b, pos |-> 0, seekFail |-> <<>>, readFailAt |-> -1]

\* body.Seek(0, 0)
Seek(s) ==
    IF s.seekFail # <<>> /\ Head(s.seekFail)
    THEN [body |-> [s EXCEPT !.seekFail = Tail(s.seekFail)], err |-> StreamErr]
    ELSE [body |-> [s EXCEPT !.pos = 0,
                             !.seekFail = IF s.seekFail = <<>> THEN <<>> ELSE Tail(s.seekFail)],
          err |-> NilErr]

\* io.Copy(dst, body): what reaches dst, the stream left where reading stopped.
Copy(s) ==
    IF s.readFailAt >= s.pos /\ s.readFailAt <= Len(s.content)
    THEN [body |-> [s EXCEPT !.pos = s.readFailAt],
          written |-> SubSeq(s.content, s.pos + 1, s.readFailAt),
          err |-> StreamErr]
    ELSE [body |-> [s EXCEPT !.pos = Len(s.content)],
          written |-> SubSeq(s.content, s.pos + 1, Len(s.content)),
          err |-> NilErr]

\* encodeMD5 without the deferred rewind.
encodeMD5_NoRewind(body) ==
    LET s1 == Seek(body)
    IN  IF s1.err # NilErr
        THEN [result |-> <<>>, err |-> s1.err, body |-> s1.body]
        ELSE LET c == Copy(s1.body)
             IN  [result |-> IF c.err # NilErr THEN <<>> ELSE EncodeToString(Sum(c.written)),
                  err |-> NilErr,
                  body |-> c.body]

\* encodeMD5: the named results (result, err) as the deferred rewind leaves
\* them, and the stream.
encodeMD5(body) ==
    LET s1 == Seek(body)
    IN  IF s1.err # NilErr
        THEN [result |-> <<>>, err |-> s1.err, body |-> s1.body]
        ELSE LET c  == Copy(s1.body)
                 \* return "", fmt.Errorf("md5Hash.Copy: %v", err)
                 r1 == IF c.err # NilErr THEN <<>> ELSE EncodeToString(Sum(c.written))
                 \* defer func() { _, err = body.Seek(0, 0) }()
                 s2 == Seek(c.body)
             IN  [result |-> r1, err |-> s2.err, body |-> s2.body]

----------------------------------------------------------------------------
(* Values that may be nil: byte slices, string slices, header maps.        *)

Nil == [isNil |-> TRUE, val |-> <<>>]

Some(v) == [isNil |-> FALSE, val |-> v]

EmptyMap == [x \in {} |-> <<>>]

----------------------------------------------------------------------------
(* http.Response and its ReadBody: everything the body yields before the   *)
(* read fails, and the failure (failAt = -1: the body reads to its end).   *)

ReadErr == Errorf("%s", "read failure", 0, <<>>)

ReadBody(r) ==
    IF r.Body.failAt >= 0 /\ r.Body.failAt <= Len(r.Body.bytes)
    THEN [body |-> SubSeq(r.Body.bytes, 1, r.Body.failAt), err |-> ReadErr]
    ELSE [body |-> r.Body.bytes, err |-> NilErr]

\* serverError making a server error of what was read when reading failed.
serverError_FoldsReadErr(httpResp) ==
    LET rb == ReadBody(httpResp)
    IN  Errorf("Error from server: %d %s", "", httpResp.StatusCode, rb.body)

\* The error of serverError without the status code.
serverError_NoStatus(httpResp) ==
    LET rb == ReadBody(httpResp)
    IN  IF rb.err # NilErr
        THEN rb.err
        ELSE Errorf("Error from server: %s", "", 0, rb.body)

serverError(httpResp) ==
    LET rb == ReadBody(httpResp)
    IN  IF rb.err # NilErr
        THEN rb.err
        ELSE Errorf("Error from server: %d %s", "", httpResp.StatusCode, rb.body)

----------------------------------------------------------------------------
(* encoding/xml, for the documents ListKeys reads: elements with names,    *)
(* attributes and character data, and processing instructions.  Unmarshal  *)
(* into listBucketResult reads the first element of the input: XMLName is  *)
(* its name, each child named Contents adds an entry whose Key is the text *)
(* of its child named Key, and every other element is skipped.            *)

\* The bytes of the markup: '<' is 60, '>' 62, '/' 47, '?' 63, ' ' 32.

ContentsName == <<67, 111, 110, 116, 101, 110, 116, 115>>

KeyName == <<75, 101, 121>>

ListBucketResultName ==
    <<76, 105, 115, 116, 66, 117, 99, 107, 101, 116, 82, 101, 115, 117, 108, 116>>

\* The name of a start tag: what precedes its attributes.
TagName(tok) ==
    LET sp == {i \in 1..Len(tok) : tok[i] = 32}
    IN  IF sp = {} THEN tok
        ELSE SubSeq(tok, 1, (CHOOSE i \in sp : \A j \in sp : i <= j) - 1)

XmlStart == [i |-> 1, done |-> FALSE, err |-> "", inTag |-> FALSE, tok |-> <<>>,
             text |-> <<>>, stack |-> <<>>, root |-> <<>>, curKey |-> <<>>,
             Contents |-> <<>>]

\* The end of a tag whose text is tok.
XmlTag(st, tok) ==
    IF tok # <<>> /\ tok[1] = 63 THEN st
    ELSE IF tok # <<>> /\ tok[1] = 47
    THEN LET name == Tail(tok)
             n == Len(st.stack)
         IN  IF n = 0 \/ st.stack[n] # name
             THEN [st EXCEPT !.done = TRUE, !.err = "XML syntax error: unexpected end element"]
             ELSE LET popped == [st EXCEPT !.stack = SubSeq(st.stack, 1, n - 1)]
                  IN  IF n = 1 THEN [popped EXCEPT !.done = TRUE]
                      ELSE IF n = 2 /\ name = ContentsName
                      THEN [popped EXCEPT !.Contents = Append(st.Contents, [Key |-> st.curKey]),
                                          !.curKey = <<>>]
                      ELSE IF n = 3 /\ name = KeyName /\ st.stack[2] = ContentsName
                      THEN [popped EXCEPT !.curKey = st.text]
                      ELSE popped
    ELSE LET name == TagName(tok)
         IN  [st EXCEPT !.stack = Append(st.stack, name),
                        !.root = IF st.stack = <<>> THEN name ELSE st.root]

XmlStep(b, st) ==
    IF st.done THEN st
    ELSE IF st.i > Len(b)
    THEN [st EXCEPT !.done = TRUE,
                    !.err = IF st.stack = <<>> /\ ~st.inTag THEN "EOF"
                            ELSE "XML syntax error: unexpected EOF"]
    ELSE LET c == b[st.i]
             next == [st EXCEPT !.i = st.i + 1]
         IN  IF st.inTag
             THEN IF c = 62
                  THEN [XmlTag([next EXCEPT !.inTag = FALSE, !.tok = <<>>], st.tok)
                            EXCEPT !.text = <<>>]
                  ELSE [next EXCEPT !.tok = Append(st.tok, c)]
             ELSE IF c = 60
                  THEN [next EXCEPT !.inTag = TRUE, !.tok = <<>>]
                  ELSE [next EXCEPT !.text = Append(st.text, c)]

\* Unmarshal keeping the first two Contents only.
Unmarshal_AtMostTwo(b) ==
    LET end == Repeat(LAMBDA st : XmlStep(b, st), XmlStart, Len(b) + 1)
    IN  [err |-> end.err,
         result |-> [XMLName |-> [Local |-> end.root],
                     Contents |-> IF Len(end.Contents) > 2
                                  THEN SubSeq(end.Contents, 1, 2)
                                  ELSE end.Contents]]

\* xml.Unmarshal(body, &result) with result := listBucketResult{}
Unmarshal(b) ==
    LET end == Repeat(LAMBDA st : XmlStep(b, st), XmlStart, Len(b) + 1)
    IN  [err |-> end.err,
         result |-> [XMLName |-> [Local |-> end.root], Contents |-> end.Contents]]

----------------------------------------------------------------------------
(* http.Request *)

NoBody == [kind |-> "nil", bytes |-> <<>>, off |-> 0]

\* A buffer over data that has been read to its end.
NewBuffer_Drained(d) == [kind |-> "buffer", bytes |-> d, off |-> Len(d)]

\* bytes.NewBuffer(data)
NewBuffer(d) == [kind |-> "buffer", bytes |-> d, off |-> 0]

\* Body: data, the caller's io.ReadSeeker itself
StreamBody == [kind |-> "stream", bytes |-> <<>>, off |-> 0]

\* fmt.Sprintf("/%s/%s", b.name, key)
ObjectPath(name, k) == <<47>> \o name \o <<47>> \o k

\* fmt.Sprintf("/%s", b.name)
BucketPath(name) == <<47>> \o name

NoReq == [Verb |-> "", Path |-> <<>>, Headers |-> EmptyMap, Parameters |-> Nil,
          Body |-> NoBody]

\* addMd5Header with the digest of no bytes.
addMd5Header_OfNothing(r, body) ==
    LET e == encodeMD5(NewReader(<<>>))
    IN  IF e.err # NilErr
        THEN [req |-> r, err |-> e.err]
        ELSE [req |-> [r EXCEPT !.Headers = ("Content-MD5" :> e.result) @@ r.Headers],
              err |-> NilErr]

\* addMd5Header(r, body), on a request under construction
addMd5Header(r, body) ==
    LET e == encodeMD5(NewReader(body))
    IN  IF e.err # NilErr
        THEN [req |-> r, err |-> e.err]
        ELSE [req |-> [r EXCEPT !.Headers = ("Content-MD5" :> e.result) @@ r.Headers],
              err |-> NilErr]

\* What a collaborator handed the request can see of it: the request, and
\* the stream behind a body that is the caller's stream.
Seen(r, s) == [req |-> r, stream |-> s]

----------------------------------------------------------------------------
(* Results *)

NoRet == [data |-> Nil, header |-> Nil, keys |-> Nil, err |-> NilErr]

NoResp == [StatusCode |-> 0, Header |-> Nil,
           Body |-> [bytes |-> <<>>, failAt |-> -1, shows |-> FALSE]]

ZeroTime == [sec |-> 0, off |-> 0, zone |-> "UTC"]

----------------------------------------------------------------------------
(* Inputs *)

MaxKeyChunks == 2

\* Pieces keys are put together from: 'a', U+00E9 in two bytes, U+0000,
\* U+FFFE in three bytes, and a continuation byte on its own.
OpChunks == {<<97>>, <<195, 169>>, <<0>>, <<239, 191, 190>>, <<128>>}

RECURSIVE ChunkKeys(_, _)
ChunkKeys(chunks, n) ==
    IF n = 0 THEN {<<>>}
    ELSE LET shorter == ChunkKeys(chunks, n - 1)
         IN  shorter \cup {k \o c : k \in shorter, c \in chunks}

Pad(n) == [i \in 1..n |-> 97]

\* Keys of exactly the longest length allowed and of one byte more, ending
\* in each piece.
LongKeys(chunks) ==
    {Pad(len - Len(c)) \o c : len \in {MaxKeyBytes, MaxKeyBytes + 1}, c \in chunks \cup {<<>>}}

Keys == ChunkKeys(OpChunks, MaxKeyChunks) \cup LongKeys(OpChunks)

\* "b" and "some.bucket"
BucketNames == {<<98>>, <<115, 111, 109, 101, 46, 98, 117, 99, 107, 101, 116>>}

\* 18 March 1985 15:33:17 UTC, in UTC and in a zone eight hours behind, and
\* 29 February 2000 23:59:59 UTC in a zone one hour ahead.
Times == {[sec |-> 480007997, off |-> 0, zone |-> "UTC"],
          [sec |-> 480007997, off |-> -28800, zone |-> "PST"],
          [sec |-> 951868799, off |-> 3600, zone |-> "CET"]}

Datas == {<<>>, <<116>>, <<0, 222, 173>>}

\* Streams over two contents, at their start or their end when Put is called,
\* failing in the first Seek, in the second or in neither, and failing or not
\* in Read (after the first byte, where there is one).
Streams ==
    {s \in [content : {<<>>, <<0, 222, 173>>},
            pos : {0, 3},
            seekFail : {<<>>, <<TRUE>>, <<FALSE, TRUE>>},
            readFailAt : {-1, 0, 1}] :
        /\ s.pos <= Len(s.content)
        /\ s.readFailAt \in {-1, IF s.content = <<>> THEN 0 ELSE 1}}

SignErrs == {"taco", "burrito"}

SignerMutations == {"none", "auth", "verb"}

SendErrs == {"taco", "queso"}

\* <name>inner</name>
Elem(name, inner) == <<60>> \o name \o <<62>> \o inner \o <<60, 47>> \o name \o <<62>>

KeyElem(k) == Elem(ContentsName, Elem(KeyName, k))

RECURSIVE KeyElems(_)
KeyElems(ks) == IF ks = <<>> THEN <<>> ELSE KeyElem(Head(ks)) \o KeyElems(Tail(ks))

\* <ListBucketResult><Contents><Key>..</Key></Contents>..</ListBucketResult>
ListingDoc(ks) == Elem(ListBucketResultName, KeyElems(ks))

\* The same after <?xml?>, with an attribute xmlns="s3" on the root and an
\* element <Name>b</Name> before the Contents.
FullListingDoc(ks) ==
    <<60, 63, 120, 109, 108, 63, 62>>
    \o <<60>> \o ListBucketResultName
    \o <<32, 120, 109, 108, 110, 115, 61, 34, 115, 51, 34, 62>>
    \o Elem(<<78, 97, 109, 101>>, <<98>>) \o KeyElems(ks)
    \o <<60, 47>> \o ListBucketResultName \o <<62>>

\* <FooBar><Contents><Key>bar</Key></Contents></FooBar>
WrongRootDoc == Elem(<<70, 111, 111, 66, 97, 114>>, KeyElem(<<98, 97, 114>>))

\* A listing of "bar" without its end tag.
CutShortDoc == <<60>> \o ListBucketResultName \o <<62>> \o KeyElem(<<98, 97, 114>>)

\* Nothing, "taco", a listing of "bar" and "baz", an empty listing, a full
\* listing of "baz", "bar" and "baz" again, a document with the root FooBar,
\* and a listing cut short.
RespTexts ==
    {<<>>,
     <<116, 97, 99, 111>>,
     ListingDoc(<<<<98, 97, 114>>, <<98, 97, 122>>>>),
     ListingDoc(<<>>),
     FullListingDoc(<<<<98, 97, 122>>, <<98, 97, 114>>, <<98, 97, 122>>>>),
     WrongRootDoc,
     CutShortDoc}

\* Responses with each status, with and without headers, whose body reads
\* to its end or fails after the first byte. The XML documents come with
\* headers and with the statuses 200 and 500. The body is a reader: what
\* fmt shows of it under %s depends on its type, the text it reads from (a
\* strings.Reader under a NopCloser, as in the tests) or none of it (the body
\* of a network response).
Responses ==
    {r \in [StatusCode : {200, 204, 500},
            Header : {Nil, Some("ETag" :> "abc")},
            Body : [bytes : RespTexts, failAt : {-1, 1}, shows : BOOLEAN]] :
        /\ r.Body.failAt <= Len(r.Body.bytes)
        /\ Len(r.Body.bytes) > 4 => r.Header # Nil /\ r.StatusCode # 204
        /\ r.Body.shows => r.Body.bytes = WrongRootDoc /\ r.Body.failAt < 0}

\* The keys a bucket may hold when its keys are listed page by page: "a",
\* "aa", "a" and U+00E9, U+00E9.
PagerKeys == {<<97>>, <<97, 97>>, <<97, 195, 169>>, <<195, 169>>}

\* The longest page of a listing.
MaxPage == 2

\* The order of strings: byte by byte, a prefix before what it is a prefix of.
RECURSIVE Less(_, _)
Less(a, b) ==
    IF b = <<>> THEN FALSE
    ELSE IF a = <<>> THEN TRUE
    ELSE IF Head(a) # Head(b) THEN Head(a) < Head(b)
    ELSE Less(Tail(a), Tail(b))

\* The strings of a set from the least to the greatest: the i-th is the one
\* with i - 1 of the others before it.
Ascending(S) ==
    [i \in 1..Cardinality(S) |->
        CHOOSE x \in S : Cardinality({y \in S : Less(y, x)}) = i - 1]

\* The pages a listing of those keys may hold.
Pages == {Ascending(S) : S \in {T \in SUBSET PagerKeys : Cardinality(T) <= MaxPage}}

\* xml.Unmarshal on the bodies of the model, evaluated once for each.
Parsed ==
    [b \in RespTexts \cup {SubSeq(t, 1, 1) : t \in RespTexts \ {<<>>}}
            \cup {FullListingDoc(p) : p \in Pages} |-> Unmarshal(b)]

\* validateKey on the keys of the model, evaluated once for each.
KeyErr == [k \in Keys |-> validateKey(k)]

----------------------------------------------------------------------------
(* The methods of bucket.  A method runs from its call to the point where  *)
(* it returns or is inside a collaborator; SignReturns and                 *)
(* SendRequestReturns run it on from there.                                *)

\* The method returns r.
Returns(r) ==
    /\ pc' = "done"
    /\ ret' = r

\* The method calls b.signer.Sign(httpReq) with the request it built.
CallsSign(r, s) ==
    /\ pc' = "Sign"
    /\ req' = r
    /\ signLog' = Append(signLog, Seen(r, s))
    /\ ret' = NoRet

Called(name, k, d, s) ==
    /\ pc = "idle"
    /\ op' = name
    /\ key' = k
    /\ data' = d
    /\ given' = s
    /\ UNCHANGED <<bucket, signRet, sendLog, sendRet, resp, bodyReads, arg, out,
                   store, history, pager, writers, parked>>

Unbuilt == UNCHANGED <<nowRet, req, signLog>>

GetObject(k) ==
    /\ Called("GetObject", k, <<>>, stream)
    /\ stream' = stream
    /\ IF KeyErr[k] # NilErr
       THEN Returns([NoRet EXCEPT !.err = KeyErr[k]]) /\ Unbuilt
       ELSE \E now \in Times :
              /\ nowRet' = now
              /\ CallsSign([Verb |-> "GET",
                            Path |-> ObjectPath(bucket.name, k),
                            Headers |-> ("Date" :> DateHeader(now)),
                            Parameters |-> Nil,
                            Body |-> NoBody], stream)

GetHeader(k) ==
    /\ Called("GetHeader", k, <<>>, stream)
    /\ stream' = stream
    /\ IF KeyErr[k] # NilErr
       THEN Returns([NoRet EXCEPT !.err = KeyErr[k]]) /\ Unbuilt
       ELSE \E now \in Times :
              /\ nowRet' = now
              /\ CallsSign([Verb |-> "HEAD",
                            Path |-> ObjectPath(bucket.name, k),
                            Headers |-> ("Date" :> DateHeader(now)),
                            Parameters |-> Nil,
                            Body |-> NoBody], stream)

StoreObject(k, d) ==
    /\ Called("StoreObject", k, d, stream)
    /\ stream' = stream
    /\ IF KeyErr[k] # NilErr
       THEN Returns([NoRet EXCEPT !.err = KeyErr[k]]) /\ Unbuilt
       ELSE \E now \in Times :
              LET httpReq == [Verb |-> "PUT",
                              Path |-> ObjectPath(bucket.name, k),
                              Headers |-> ("Date" :> DateHeader(now)),
                              Parameters |-> Nil,
                              Body |-> NewBuffer(d)]
                  md5 == addMd5Header(httpReq, d)
              IN  /\ nowRet' = now
                  /\ IF md5.err # NilErr
                     THEN /\ Returns([NoRet EXCEPT !.err = md5.err])
                          /\ req' = md5.req
                          /\ signLog' = signLog
                     ELSE CallsSign(md5.req, stream)

DeleteObject(k) ==
    /\ Called("DeleteObject", k, <<>>, stream)
    /\ stream' = stream
    /\ IF KeyErr[k] # NilErr
       THEN Returns([NoRet EXCEPT !.err = KeyErr[k]]) /\ Unbuilt
       ELSE \E now \in Times :
              LET httpReq == [Verb |-> "DELETE",
                              Path |-> ObjectPath(bucket.name, k),
                              Headers |-> ("Date" :> DateHeader(now)),
                              Parameters |-> Nil,
                              Body |-> NoBody]
                  md5 == addMd5Header(httpReq, <<>>)
              IN  /\ nowRet' = now
                  /\ IF md5.err # NilErr
                     THEN /\ Returns([NoRet EXCEPT !.err = md5.err])
                          /\ req' = md5.req
                          /\ signLog' = signLog
                     ELSE CallsSign(md5.req, stream)

Put(k, s) ==
    /\ Called("Put", k, <<>>, s)
    /\ IF KeyErr[k] # NilErr
       THEN Returns([NoRet EXCEPT !.err = KeyErr[k]]) /\ Unbuilt /\ stream' = s
       ELSE LET md5 == encodeMD5(s)
            IN  /\ stream' = md5.body
                /\ IF md5.err # NilErr
                   THEN Returns([NoRet EXCEPT !.err = md5.err]) /\ Unbuilt
                   ELSE \E now \in Times :
                          /\ nowRet' = now
                          /\ CallsSign([Verb |-> "PUT",
                                        Path |-> ObjectPath(bucket.name, k),
                                        Headers |-> ("Date" :> DateHeader(now))
                                                    @@ ("Content-MD5" :> md5.result),
                                        Parameters |-> Nil,
                                        Body |-> StreamBody], md5.body)

\* ListKeys holding the empty prevKey to the rules of keys.
ListKeys_NoExemption(prevKey) ==
    /\ Called("ListKeys", prevKey, <<>>, stream)
    /\ stream' = stream
    /\ IF KeyErr[prevKey] # NilErr
       THEN Returns([NoRet EXCEPT !.err = KeyErr[prevKey]]) /\ Unbuilt
       ELSE \E now \in Times :
              /\ nowRet' = now
              /\ CallsSign([Verb |-> "GET",
                            Path |-> BucketPath(bucket.name),
                            Headers |-> ("Date" :> DateHeader(now)),
                            Parameters |-> Some("marker" :> prevKey),
                            Body |-> NoBody], stream)

\* ListKeys that never sets the marker.
ListKeys_NoMarker(prevKey) ==
    /\ Called("ListKeys", prevKey, <<>>, stream)
    /\ stream' = stream
    /\ IF KeyErr[prevKey] # NilErr /\ prevKey # <<>>
       THEN Returns([NoRet EXCEPT !.err = KeyErr[prevKey]]) /\ Unbuilt
       ELSE \E now \in Times :
              /\ nowRet' = now
              /\ CallsSign([Verb |-> "GET",
                            Path |-> BucketPath(bucket.name),
                            Headers |-> ("Date" :> DateHeader(now)),
                            Parameters |-> Some(EmptyMap),
                            Body |-> NoBody], stream)

\* ListKeys setting the marker whatever prevKey is.
ListKeys_AlwaysMarker(prevKey) ==
    /\ Called("ListKeys", prevKey, <<>>, stream)
    /\ stream' = stream
    /\ IF KeyErr[prevKey] # NilErr /\ prevKey # <<>>
       THEN Returns([NoRet EXCEPT !.err = KeyErr[prevKey]]) /\ Unbuilt
       ELSE \E now \in Times :
              /\ nowRet' = now
              /\ CallsSign([Verb |-> "GET",
                            Path |-> BucketPath(bucket.name),
                            Headers |-> ("Date" :> DateHeader(now)),
                            Parameters |-> Some("marker" :> prevKey),
                            Body |-> NoBody], stream)

ListKeys(prevKey) ==
    /\ Called("ListKeys", prevKey, <<>>, stream)
    /\ stream' = stream
    /\ IF KeyErr[prevKey] # NilErr /\ prevKey # <<>>
       THEN Returns([NoRet EXCEPT !.err = KeyErr[prevKey]]) /\ Unbuilt
       ELSE \E now \in Times :
              /\ nowRet' = now
              /\ CallsSign([Verb |-> "GET",
                            Path |-> BucketPath(bucket.name),
                            Headers |-> ("Date" :> DateHeader(now)),
                            Parameters |-> Some(IF prevKey # <<>>
                                                THEN ("marker" :> prevKey)
                                                ELSE EmptyMap),
                            Body |-> NoBody], stream)

----------------------------------------------------------------------------
(* The collaborators answer *)

\* What a Signer may do to the request it is handed.
Mutate(r, m) ==
    IF m = "auth" THEN [r EXCEPT !.Headers = ("Authorization" :> "AWS id:sig") @@ r.Headers]
    ELSE IF m = "verb" THEN [r EXCEPT !.Verb = "burrito"]
    ELSE r

\* The Signer's error handed on as it is.
SignFailed_Unwrapped(e) ==
    Returns([NoRet EXCEPT !.err = Errorf("%v", e, 0, <<>>)])

\* After b.signer.Sign(httpReq) fails: return fmt.Errorf("Sign: %v", err)
SignFailed(e) ==
    Returns([NoRet EXCEPT !.err = Errorf("Sign: %v", e, 0, <<>>)])

\* SendRequest handed the request as it was before it was signed.
CallsSendRequest_BeforeSigning(r) ==
    /\ pc' = "SendRequest"
    /\ sendLog' = Append(sendLog, Seen(req, stream))
    /\ ret' = ret

\* After b.signer.Sign(httpReq) succeeds: b.httpConn.SendRequest(httpReq)
CallsSendRequest(r) ==
    /\ pc' = "SendRequest"
    /\ sendLog' = Append(sendLog, Seen(r, stream))
    /\ ret' = ret

\* Sign changed the request as m says and returned nil.
SignSucceeded(m) ==
    /\ signRet' = Append(signRet, [err |-> "", did |-> m])
    /\ req' = Mutate(req, m)
    /\ CallsSendRequest(Mutate(req, m))

SignReturns ==
    /\ pc = "Sign"
    /\ UNCHANGED <<bucket, op, key, data, stream, given, nowRet, signLog, sendRet, resp, bodyReads,
                   arg, out, store, history, pager, writers, parked>>
    /\ \/ \E e \in SignErrs :
            /\ signRet' = Append(signRet, [err |-> e, did |-> "none"])
            /\ SignFailed(e)
            /\ UNCHANGED <<req, sendLog>>
       \/ \E m \in SignerMutations : SignSucceeded(m)

\* The rest of each method, from the response SendRequest returned.
Interpret(name, httpResp) ==
    IF name = "GetObject"
    THEN IF httpResp.StatusCode # 200
         THEN [NoRet EXCEPT !.err = serverError(httpResp)]
         ELSE LET rb == ReadBody(httpResp)
              IN  [NoRet EXCEPT !.data = Some(rb.body), !.err = rb.err]
    ELSE IF name = "GetHeader"
    THEN IF httpResp.StatusCode # 200
         THEN [NoRet EXCEPT !.header = httpResp.Header, !.err = serverError(httpResp)]
         ELSE [NoRet EXCEPT !.header = httpResp.Header]
    ELSE IF name = "DeleteObject"
    THEN IF httpResp.StatusCode # 204
         THEN [NoRet EXCEPT !.err = serverError(httpResp)]
         ELSE NoRet
    ELSE IF name = "ListKeys"
    THEN IF httpResp.StatusCode # 200
         THEN [NoRet EXCEPT !.err = serverError(httpResp)]
         ELSE LET rb == ReadBody(httpResp)
                  x  == Parsed[rb.body]
              IN  IF rb.err # NilErr
                  THEN [NoRet EXCEPT !.err = rb.err]
                  ELSE IF x.err # ""
                  THEN [NoRet EXCEPT !.err =
                            Errorf("Invalid data from server (%s): %s", x.err, 0, rb.body)]
                  ELSE IF x.result.XMLName.Local # ListBucketResultName
                  THEN [NoRet EXCEPT !.err =
                            Errorf("Invalid data from server: %s", "httpResp.Body", 0,
                                   IF httpResp.Body.shows THEN httpResp.Body.bytes
                                   ELSE <<>>)]
                  ELSE [NoRet EXCEPT !.keys =
                            Some([i \in 1..Len(x.result.Contents) |->
                                      x.result.Contents[i].Key])]
    ELSE IF httpResp.StatusCode # 200
         THEN [NoRet EXCEPT !.err = serverError(httpResp)]
         ELSE NoRet

\* The calls of httpResp.ReadBody() the rest of the method makes, directly
\* or in serverError.
ReadBodyCalls(name, httpResp) ==
    IF name \in {"GetObject", "ListKeys"} THEN 1
    ELSE IF name = "GetHeader" THEN (IF httpResp.StatusCode # 200 THEN 1 ELSE 0)
    ELSE IF name = "DeleteObject" THEN (IF httpResp.StatusCode # 204 THEN 1 ELSE 0)
    ELSE IF httpResp.StatusCode # 200 THEN 1 ELSE 0

\* The Connection's error handed on under the tag of the Signer.
SendFailed_TaggedSign(e) ==
    /\ sendRet' = Append(sendRet, [err |-> e, resp |-> NoResp])
    /\ Returns([NoRet EXCEPT !.err = Errorf("Sign: %v", e, 0, <<>>)])
    /\ UNCHANGED <<resp, bodyReads>>

\* After b.httpConn.SendRequest(httpReq) fails:
\* return fmt.Errorf("SendRequest: %v", err)
SendFailed(e) ==
    /\ sendRet' = Append(sendRet, [err |-> e, resp |-> NoResp])
    /\ Returns([NoRet EXCEPT !.err = Errorf("SendRequest: %v", e, 0, <<>>)])
    /\ UNCHANGED <<resp, bodyReads>>

\* After b.httpConn.SendRequest(httpReq) returns the response r.
Responded(r) ==
    /\ sendRet' = Append(sendRet, [err |-> "", resp |-> r])
    /\ resp' = r
    /\ bodyReads' = ReadBodyCalls(op, r)
    /\ Returns(Interpret(op, r))

SendRequestReturns ==
    /\ pc = "SendRequest"
    /\ UNCHANGED <<bucket, op, key, data, stream, given, nowRet, req, signLog, signRet, sendLog,
                   arg, out, store, history, pager, writers, parked>>
    /\ \/ \E e \in SendErrs : SendFailed(e)
       \/ \E r \in Responses : Responded(r)

\* The locals of a call are gone, and the collaborators' records of it are
\* cleared; the bucket is as it was.
NextCall ==
    /\ pc' = "idle"
    /\ op' = "none"
    /\ key' = <<>>
    /\ data' = <<>>
    /\ stream' = NewReader(<<>>)
    /\ given' = NewReader(<<>>)
    /\ nowRet' = ZeroTime
    /\ req' = NoReq
    /\ signLog' = <<>>
    /\ signRet' = <<>>
    /\ sendLog' = <<>>
    /\ sendRet' = <<>>
    /\ resp' = NoResp
    /\ bodyReads' = 0
    /\ ret' = NoRet
    /\ UNCHANGED <<bucket, arg, out>>

\* The caller takes the result; the next call starts from fresh collaborators.
Return ==
    /\ pc = "done"
    /\ NextCall
    /\ UNCHANGED <<store, history, pager, writers, parked>>

NoArg == [fn |-> "none", key |-> <<>>, rune |-> 0]

NoOut == [err |-> NilErr, legal |-> FALSE]

NoPager == [phase |-> "none", marker |-> <<>>, pages |-> <<>>, calls |-> 0]

\* No one else writes to the service.
NoWriters == [start |-> {}, log |-> <<>>, snaps |-> {}]

\* The locals of a call, and those of a caller that has called nothing.
Locals ==
    [pc |-> pc, op |-> op, key |-> key, data |-> data, stream |-> stream, given |-> given,
     nowRet |-> nowRet, req |-> req, signLog |-> signLog, signRet |-> signRet,
     sendLog |-> sendLog, sendRet |-> sendRet, resp |-> resp, bodyReads |-> bodyReads,
     ret |-> ret]

NoLocals ==
    [pc |-> "idle", op |-> "none", key |-> <<>>, data |-> <<>>, stream |-> NewReader(<<>>),
     given |-> NewReader(<<>>), nowRet |-> ZeroTime, req |-> NoReq, signLog |-> <<>>,
     signRet |-> <<>>, sendLog |-> <<>>, sendRet |-> <<>>, resp |-> NoResp, bodyReads |-> 0,
     ret |-> NoRet]

\* No method has been called yet.
NoCall ==
    /\ pc = "idle"
    /\ op = "none"
    /\ key = <<>>
    /\ data = <<>>
    /\ stream = NewReader(<<>>)
    /\ given = NewReader(<<>>)
    /\ nowRet = ZeroTime
    /\ req = NoReq
    /\ signLog = <<>>
    /\ signRet = <<>>
    /\ sendLog = <<>>
    /\ sendRet = <<>>
    /\ resp = NoResp
    /\ bodyReads = 0
    /\ ret = NoRet
    /\ arg = NoArg
    /\ out = NoOut

\* openBucket(name, httpConn, signer, clock)
Init ==
    /\ bucket \in {[name |-> n] : n \in BucketNames}
    /\ NoCall
    /\ store = EmptyMap
    /\ history = <<>>
    /\ pager = NoPager
    /\ writers = NoWriters
    /\ parked = NoLocals

\* A method is called when no call is under way; the collaborators answer
\* the call they received.
Next ==
    \/ pc = "idle" /\ \E k \in Keys : GetObject(k)
    \/ pc = "idle" /\ \E k \in Keys : GetHeader(k)
    \/ pc = "idle" /\ \E k \in Keys, d \in Datas : StoreObject(k, d)
    \/ pc = "idle" /\ \E k \in Keys : DeleteObject(k)
    \/ pc = "idle" /\ \E k \in Keys, s \in Streams : Put(k, s)
    \/ pc = "idle" /\ \E k \in Keys : ListKeys(k)
    \/ SignReturns
    \/ SendRequestReturns
    \/ Return

Spec == Init /\ [][Next]_vars

----------------------------------------------------------------------------
(* validateKey and isLegalXmlCharacter called on their own, on keys put    *)
(* together from encodings at the edges of what UTF-8 and XML allow.       *)

MaxChunks == 2

\* 'a', tab, U+0000, U+001F; U+0080 and U+00E9 in two bytes; U+D7FF, U+E000,
\* U+FFFD, U+FFFE and U+FFFF in three; U+10000 and U+10FFFF in four; and, not
\* UTF-8: a lone continuation byte, a lone first byte, U+0000 in two bytes,
\* the surrogates U+D800, U+DF77 and U+DFFF in three bytes, U+110000 in four
\* bytes and the byte 255.
EdgeChunks ==
    {<<97>>, <<9>>, <<0>>, <<31>>, <<194, 128>>, <<195, 169>>,
     <<237, 159, 191>>, <<238, 128, 128>>, <<239, 191, 189>>, <<239, 191, 190>>,
     <<239, 191, 191>>, <<240, 144, 128, 128>>, <<244, 143, 191, 191>>,
     <<128>>, <<239>>, <<192, 128>>, <<237, 160, 128>>, <<237, 189, 183>>,
     <<237, 191, 191>>, <<244, 144, 128, 128>>, <<255>>}

EdgeKeys == ChunkKeys(EdgeChunks, MaxChunks) \cup LongKeys(EdgeChunks)

\* The codepoints at and next to every edge of the ranges.
EdgeRunes ==
    {0, 8, 9, 10, 11, 12, 13, 14, 31, 32, 127, 128, 55295, 55296, 57207, 57208, 57343,
     57344, 65533, 65534, 65535, 65536, 1114111, 1114112}

CallValidateKey(k) ==
    /\ arg = NoArg
    /\ arg' = [fn |-> "validateKey", key |-> k, rune |-> 0]
    /\ out' = [err |-> validateKey(k), legal |-> FALSE]
    /\ UNCHANGED <<bucket, pc, op, key, data, stream, given, nowRet, req, signLog, signRet,
                   sendLog, sendRet, resp, bodyReads, ret, store, history, pager, writers, parked>>

CallIsLegalXmlCharacter(r) ==
    /\ arg = NoArg
    /\ arg' = [fn |-> "isLegalXmlCharacter", key |-> <<>>, rune |-> r]
    /\ out' = [err |-> NilErr, legal |-> isLegalXmlCharacter(r)]
    /\ UNCHANGED <<bucket, pc, op, key, data, stream, given, nowRet, req, signLog, signRet,
                   sendLog, sendRet, resp, bodyReads, ret, store, history, pager, writers, parked>>

NextValidate ==
    \/ \E k \in EdgeKeys : CallValidateKey(k)
    \/ \E r \in EdgeRunes : CallIsLegalXmlCharacter(r)

SpecValidate == Init /\ [][NextValidate]_vars

----------------------------------------------------------------------------
(* The service behind the Connection, as the documentation of Bucket has   *)
(* it: a collection of objects under their keys, where a store overwrites, *)
(* a get yields what was stored, a delete removes, and a listing yields,   *)
(* in ascending order, keys next after the marker.                         *)

HasPrefix(p, pre) == Len(p) >= Len(pre) /\ SubSeq(p, 1, Len(pre)) = pre

\* The keys of the objects held under /name/.
KeysOf(st, name) ==
    {SubSeq(p, Len(name) + 3, Len(p)) :
        p \in {q \in DOMAIN st : HasPrefix(q, <<47>> \o name \o <<47>>)}}

\* A path with no '/' after its first byte names a bucket.
IsBucketPath(p) == \A i \in 2..Len(p) : p[i] # 47

\* The bytes the service reads from the body of a request.
ReceivedBody(seen) ==
    LET b == seen.req.Body
    IN  IF b.kind = "buffer" THEN SubSeq(b.bytes, b.off + 1, Len(b.bytes))
        ELSE IF b.kind = "stream"
        THEN SubSeq(seen.stream.content, seen.stream.pos + 1, Len(seen.stream.content))
        ELSE <<>>

\* The same from the marker on, the marker itself among them.
PageAfter_Inclusive(S, m, n) ==
    LET rest == Ascending({k \in S : k = m \/ Less(m, k)})
    IN  SubSeq(rest, 1, IF n < Len(rest) THEN n ELSE Len(rest))

\* The first n, or all if they are fewer, of the keys of S after the marker
\* m, in ascending order.
PageAfter(S, m, n) ==
    LET rest == Ascending({k \in S : Less(m, k)})
    IN  SubSeq(rest, 1, IF n < Len(rest) THEN n ELSE Len(rest))

ServiceResponse(code, b) ==
    [StatusCode |-> code,
     Header |-> Some("ETag" :> "abc"),
     Body |-> [bytes |-> b, failAt |-> -1, shows |-> FALSE]]

\* The marker of a listing request: none is the empty string.
MarkerOf(r) ==
    IF "marker" \in DOMAIN r.Parameters.val THEN r.Parameters.val["marker"] ELSE <<>>

\* What the service does with the request it is sent, and what it answers:
\* the new objects and the response.  A PUT whose Content-MD5 is not the
\* digest of its body is refused; a listing holds the first n keys after the
\* marker, or fewer if fewer are left.
Serve(st, seen, n) ==
    LET r    == seen.req
        body == ReceivedBody(seen)
    IN  IF r.Verb = "PUT"
        THEN IF "Content-MD5" \in DOMAIN r.Headers
                /\ r.Headers["Content-MD5"] # EncodeToString(Sum(body))
             THEN [store |-> st,
                   resp |-> ServiceResponse(400, <<66, 97, 100, 68, 105, 103, 101, 115, 116>>)]
             ELSE [store |-> (r.Path :> body) @@ st, resp |-> ServiceResponse(200, <<>>)]
        ELSE IF r.Verb = "DELETE"
        THEN [store |-> [q \in DOMAIN st \ {r.Path} |-> st[q]],
              resp |-> ServiceResponse(204, <<>>)]
        ELSE IF r.Verb = "GET" /\ IsBucketPath(r.Path)
        THEN CHOOSE a \in {[store |-> st, resp |-> ServiceResponse(200, FullListingDoc(page))] :
                              page \in {PageAfter(KeysOf(st, Tail(r.Path)), MarkerOf(r), n)}} :
                 TRUE
        ELSE IF r.Verb = "GET" /\ r.Path \in DOMAIN st
        THEN [store |-> st, resp |-> ServiceResponse(200, st[r.Path])]
        ELSE [store |-> st,
              resp |-> ServiceResponse(404, <<78, 111, 83, 117, 99, 104, 75, 101, 121>>)]

\* A Signer that signs: it adds its header and returns nil.
SignerSigns ==
    /\ pc = "Sign"
    /\ UNCHANGED <<bucket, op, key, data, stream, given, nowRet, signLog, sendRet, resp, bodyReads,
                   arg, out, store, history, pager, writers, parked>>
    /\ SignSucceeded("auth")

\* A Connection that delivers the request to the service and returns its
\* response.
ServiceAnswers ==
    /\ pc = "SendRequest"
    /\ UNCHANGED <<bucket, op, key, data, stream, given, nowRet, req, signLog, signRet, sendLog,
                   arg, out, history, pager, writers, parked>>
    /\ \E n \in 1..MaxPage :
         \E a \in {Serve(store, sendLog[1], n)} :
             /\ store' = a.store
             /\ Responded(a.resp)

----------------------------------------------------------------------------
(* A caller that stores, gets and deletes objects of the service, one call *)
(* after the other, and keeps what each call was handed and returned.      *)

\* The calls the caller makes.
MaxCalls == 2

\* "a" and U+00E9
ServiceKeys == {<<97>>, <<195, 169>>}

ServiceDatas == {<<>>, <<0, 222, 173>>}

\* The finished call: its arguments, what the Signer was handed and what
\* the method returned.
Finished ==
    LET r == IF signLog = <<>> THEN NoReq ELSE signLog[1].req
    IN  [op |-> op, key |-> key, data |-> data,
         Verb |-> r.Verb, Path |-> r.Path, Body |-> r.Body,
         md5 |-> IF "Content-MD5" \in DOMAIN r.Headers THEN r.Headers["Content-MD5"]
                 ELSE <<>>,
         status |-> resp.StatusCode,
         ret |-> ret]

CallerTakes ==
    /\ pc = "done"
    /\ NextCall
    /\ history' = Append(history, Finished)
    /\ UNCHANGED <<store, pager, writers, parked>>

NextService ==
    \/ /\ pc = "idle" /\ Len(history) < MaxCalls
       /\ \E k \in ServiceKeys, d \in ServiceDatas : StoreObject(k, d)
    \/ /\ pc = "idle" /\ Len(history) < MaxCalls
       /\ \E k \in ServiceKeys : GetObject(k)
    \/ /\ pc = "idle" /\ Len(history) < MaxCalls
       /\ \E k \in ServiceKeys : DeleteObject(k)
    \/ SignerSigns
    \/ ServiceAnswers
    \/ CallerTakes

SpecService == Init /\ [][NextService]_vars

----------------------------------------------------------------------------
(* A caller that lists the keys of a bucket no one writes to: it starts    *)
(* with ListKeys("") and calls again with the last key of each page until  *)
(* a page is empty.                                                        *)

\* The keys the bucket holds at most.
MaxObjects == 3

\* A service holding an object of no bytes under each key of S.
StoreOf(name, S) == [p \in {ObjectPath(name, k) : k \in S} |-> <<>>]

InitPager ==
    /\ bucket \in {[name |-> n] : n \in BucketNames}
    /\ NoCall
    /\ \E S \in SUBSET PagerKeys :
         /\ Cardinality(S) <= MaxObjects
         /\ store = StoreOf(bucket.name, S)
    /\ history = <<>>
    /\ pager = [phase |-> "paging", marker |-> <<>>, pages |-> <<>>, calls |-> 0]
    /\ writers = NoWriters
    /\ parked = NoLocals

\* The caller has no more calls to make than there are keys, and one.
PagerCalls ==
    /\ pc = "idle"
    /\ pager.phase = "paging"
    /\ pager.calls <= MaxObjects
    /\ ListKeys(pager.marker)

\* The caller takes the page: it stops at an error or an empty page, and
\* goes on from the last key otherwise.
TakesPage ==
    /\ pc = "done"
    /\ pager.phase = "paging"
    /\ NextCall
    /\ pager' = IF ret.err # NilErr THEN [pager EXCEPT !.phase = "failed"]
                ELSE IF ret.keys.val = <<>> THEN [pager EXCEPT !.phase = "stopped"]
                ELSE [pager EXCEPT !.marker = ret.keys.val[Len(ret.keys.val)],
                                   !.pages = pager.pages \o ret.keys.val,
                                   !.calls = pager.calls + 1]

PagerTakes ==
    /\ TakesPage
    /\ UNCHANGED <<store, history, writers, parked>>

NextPager ==
    \/ PagerCalls
    \/ SignerSigns
    \/ ServiceAnswers
    \/ PagerTakes

\* Each call returns and the caller goes on: nothing here waits for anything
\* but the step before it.
SpecPager == InitPager /\ [][NextPager]_vars /\ WF_vars(NextPager)

----------------------------------------------------------------------------
(* The same caller while other clients of the service store and delete     *)
(* objects of the bucket, between the calls (the caller is idle) and       *)
(* during them (the request is on its way).  The service takes each        *)
(* request at one instant, a listing as any other, and the call returns    *)
(* with its answer.  writers holds the keys of the bucket when the listing *)
(* began (start), what was written since (log), and the keys the bucket    *)
(* has held at the instants of the call under way or just returned (snaps).*)

\* What the other clients write at most while the caller pages.
MaxWrites == 2

\* The bucket the other clients write to.
WriterBuckets == {<<98>>}

\* The keys they write: "a", "aa" and U+00E9.
WriterKeys == {<<97>>, <<97, 97>>, <<195, 169>>}

InitWriters ==
    /\ bucket \in {[name |-> n] : n \in WriterBuckets}
    /\ NoCall
    /\ \E S \in SUBSET PagerKeys :
         /\ Cardinality(S) <= MaxObjects
         /\ store = StoreOf(bucket.name, S)
         /\ writers = [start |-> S, log |-> <<>>, snaps |-> {S}]
    /\ history = <<>>
    /\ pager = [phase |-> "paging", marker |-> <<>>, pages |-> <<>>, calls |-> 0]
    /\ parked = NoLocals

\* The service, having taken a request of another client, holds the objects
\* st: that is one more instant of a call under way, and the first instant
\* of the next call when none is.
Written(kind, k, st) ==
    /\ pager.phase = "paging"
    /\ pc \in {"idle", "SendRequest"}
    /\ Len(writers.log) < MaxWrites
    /\ store' = st
    /\ writers' = [writers EXCEPT
                       !.log = Append(@, [kind |-> kind, key |-> k]),
                       !.snaps = IF pc = "idle" THEN {KeysOf(st, bucket.name)}
                                 ELSE @ \cup {KeysOf(st, bucket.name)}]
    /\ UNCHANGED <<bucket, pc, op, key, data, stream, given, nowRet, req, signLog, signRet,
                   sendLog, sendRet, resp, bodyReads, ret, arg, out, history, pager, parked>>

\* Another client stores an object of no bytes under k.
WriterStores(k) ==
    Written("store", k, (ObjectPath(bucket.name, k) :> <<>>) @@ store)

\* Another client deletes the object under k.
WriterDeletes(k) ==
    Written("delete", k, [q \in DOMAIN store \ {ObjectPath(bucket.name, k)} |-> store[q]])

\* The caller calls ListKeys with its marker; it has no more calls to make
\* than there can be keys, and one.
WatchedPagerCalls ==
    /\ pc = "idle"
    /\ pager.phase = "paging"
    /\ pager.calls <= MaxObjects + MaxWrites
    /\ ListKeys(pager.marker)

\* The caller takes the page; the next call has seen the bucket as it is now.
WatchedPagerTakes ==
    /\ TakesPage
    /\ writers' = [writers EXCEPT !.snaps = {KeysOf(store, bucket.name)}]
    /\ UNCHANGED <<store, history, parked>>

NextWriters ==
    \/ WatchedPagerCalls
    \/ SignerSigns
    \/ ServiceAnswers
    \/ WatchedPagerTakes
    \/ \E k \in WriterKeys : WriterStores(k)
    \/ \E k \in WriterKeys : WriterDeletes(k)

SpecWriters == InitWriters /\ [][NextWriters]_vars

----------------------------------------------------------------------------
(* Two callers of one bucket, each making one call, their steps in any     *)
(* order.  The locals of a call (its arguments, httpReq, httpResp, err and *)
(* what the collaborators were handed and returned for it) belong to the   *)
(* caller; the bucket is what the callers share.  The variables of a call  *)
(* are those of the caller whose step is next; parked holds those of the   *)
(* other one.                                                              *)

\* The locals of the callers change places while the request is shared: a
\* bucket that keeps the request it builds.
Switch_SharedRequest ==
    /\ pc' = parked.pc
    /\ op' = parked.op
    /\ key' = parked.key
    /\ data' = parked.data
    /\ stream' = parked.stream
    /\ given' = parked.given
    /\ nowRet' = parked.nowRet
    /\ req' = req
    /\ signLog' = parked.signLog
    /\ signRet' = parked.signRet
    /\ sendLog' = parked.sendLog
    /\ sendRet' = parked.sendRet
    /\ resp' = parked.resp
    /\ bodyReads' = parked.bodyReads
    /\ ret' = parked.ret
    /\ parked' = Locals
    /\ UNCHANGED <<bucket, arg, out, store, history, pager, writers>>

\* The other caller takes the next step.
Switch ==
    /\ pc' = parked.pc
    /\ op' = parked.op
    /\ key' = parked.key
    /\ data' = parked.data
    /\ stream' = parked.stream
    /\ given' = parked.given
    /\ nowRet' = parked.nowRet
    /\ req' = parked.req
    /\ signLog' = parked.signLog
    /\ signRet' = parked.signRet
    /\ sendLog' = parked.sendLog
    /\ sendRet' = parked.sendRet
    /\ resp' = parked.resp
    /\ bodyReads' = parked.bodyReads
    /\ ret' = parked.ret
    /\ parked' = Locals
    /\ UNCHANGED <<bucket, arg, out, store, history, pager, writers>>

\* "a" and U+0000, which is no key.
SharedKeys == {<<97>>, <<0>>}

SharedDatas == {<<0, 222, 173>>}

\* Streams at their end when Put is called, one of which fails to rewind.
SharedStreams ==
    {s \in Streams : /\ s.content = <<0, 222, 173>>
                     /\ s.pos = 3
                     /\ s.seekFail \in {<<>>, <<FALSE, TRUE>>}
                     /\ s.readFailAt = -1}

\* 200 with a listing, 500 with "taco", 200 with a body that fails to read.
SharedResponses ==
    {r \in Responses :
        \/ /\ r.StatusCode = 200
           /\ r.Body = [bytes |-> ListingDoc(<<<<98, 97, 114>>, <<98, 97, 122>>>>),
                        failAt |-> -1, shows |-> FALSE]
        \/ /\ r.StatusCode = 500 /\ r.Header = Nil
           /\ r.Body = [bytes |-> <<116, 97, 99, 111>>, failAt |-> -1, shows |-> FALSE]
        \/ /\ r.StatusCode = 200 /\ r.Header = Nil
           /\ r.Body = [bytes |-> <<116, 97, 99, 111>>, failAt |-> 1, shows |-> FALSE]}

\* The Signer answers the caller it was called by: it fails, or changes the
\* request and returns nil.
SharedSignReturns ==
    /\ pc = "Sign"
    /\ UNCHANGED <<bucket, op, key, data, stream, given, nowRet, signLog, sendRet, resp,
                   bodyReads, arg, out, store, history, pager, writers, parked>>
    /\ \/ /\ signRet' = Append(signRet, [err |-> "taco", did |-> "none"])
          /\ SignFailed("taco")
          /\ UNCHANGED <<req, sendLog>>
       \/ \E m \in {"auth", "verb"} : SignSucceeded(m)

\* The Connection answers the caller it was called by.
SharedSendRequestReturns ==
    /\ pc = "SendRequest"
    /\ UNCHANGED <<bucket, op, key, data, stream, given, nowRet, req, signLog, signRet,
                   sendLog, arg, out, store, history, pager, writers, parked>>
    /\ \/ SendFailed("queso")
       \/ \E r \in SharedResponses : Responded(r)

\* A caller that has called nothing calls a method, and no other step of it
\* changes what the other caller holds.
NextShared ==
    \/ pc = "idle" /\ op = "none" /\ \E k \in SharedKeys : GetObject(k)
    \/ pc = "idle" /\ op = "none" /\ \E k \in SharedKeys : GetHeader(k)
    \/ pc = "idle" /\ op = "none" /\ \E k \in SharedKeys, d \in SharedDatas : StoreObject(k, d)
    \/ pc = "idle" /\ op = "none" /\ \E k \in SharedKeys : DeleteObject(k)
    \/ pc = "idle" /\ op = "none" /\ \E k \in SharedKeys, s \in SharedStreams : Put(k, s)
    \/ pc = "idle" /\ op = "none" /\ \E k \in SharedKeys \cup {<<>>} : ListKeys(k)
    \/ SharedSignReturns
    \/ SharedSendRequestReturns
    \/ Switch

SpecShared == Init /\ [][NextShared]_vars

----------------------------------------------------------------------------
(* The connection of src/s3/http/conn.go and OpenBucket, called on their   *)
(* own.  A url.URL is its Scheme and its Host; url.Values.Encode writes    *)
(* the parameters sorted by key, each key and value through QueryEscape.   *)

\* NewConn that knows no scheme but http.
NewConn_HttpOnly(endpoint) ==
    IF endpoint.Scheme = "http"
    THEN [c |-> Some([endpoint |-> endpoint]), err |-> NilErr]
    ELSE [c |-> Nil, err |-> Errorf("Unsupported scheme: %s", endpoint.Scheme, 0, <<>>)]

NewConn(endpoint) ==
    IF endpoint.Scheme \in {"http", "https"}
    THEN [c |-> Some([endpoint |-> endpoint]), err |-> NilErr]
    ELSE [c |-> Nil, err |-> Errorf("Unsupported scheme: %s", endpoint.Scheme, 0, <<>>)]

\* OpenBucket(name, region, key), where auth.NewSigner(&key) returns the
\* error signerErr, or nil if that is "".
OpenBucket(name, region, signerErr) ==
    LET endpoint == [Scheme |-> "https", Host |-> region]
        httpConn == NewConn(endpoint)
    IN  IF httpConn.err # NilErr
        THEN [bucket |-> Nil, err |-> Errorf("http.NewConn: %v", httpConn.err.str, 0, <<>>)]
        ELSE IF signerErr # ""
        THEN [bucket |-> Nil, err |-> Errorf("auth.NewSigner: %v", signerErr, 0, <<>>)]
        ELSE [bucket |-> Some([name |-> name, httpConn |-> httpConn.c.val]), err |-> NilErr]

\* net/url shouldEscape for a query component: letters, digits, '-', '_',
\* '.' and '~' are written as they are.
shouldEscape(c) ==
    ~ \/ (c >= 97 /\ c <= 122)
      \/ (c >= 65 /\ c <= 90)
      \/ (c >= 48 /\ c <= 57)
      \/ c \in {45, 95, 46, 126}

\* The digit of "0123456789ABCDEF" for n.
UpperHex(n) == IF n < 10 THEN 48 + n ELSE 55 + n

\* url.QueryEscape: a space becomes '+', a byte to escape '%' and two digits.
RECURSIVE QueryEscape(_)
QueryEscape(s) ==
    IF s = <<>> THEN <<>>
    ELSE LET c == Head(s)
         IN  (IF c = 32 THEN <<43>>
              ELSE IF shouldEscape(c) THEN <<37, UpperHex(c \div 16), UpperHex(c % 16)>>
              ELSE <<c>>) \o QueryEscape(Tail(s))

\* url.Values.Encode, of values with one string under each key: key=value
\* for each key in ascending order, with '&' between them.
RECURSIVE EncodeKeys(_, _)
EncodeKeys(v, ks) ==
    IF ks = <<>> THEN <<>>
    ELSE (QueryEscape(Head(ks)) \o <<61>> \o QueryEscape(v[Head(ks)]))
         \o (IF Tail(ks) = <<>> THEN <<>> ELSE <<38>>)
         \o EncodeKeys(v, Tail(ks))

Encode(v) == EncodeKeys(v, Ascending(DOMAIN v))

\* makeRawQuery(r): values.Set(key, val) for each parameter, then Encode.
makeRawQuery(r) ==
    Encode(IF r.Parameters.isNil THEN EmptyMap ELSE r.Parameters.val)

Schemes == {"", "http", "https", "taco", "ftp", "HTTP", "Https", "httpss"}

Hosts == {"localhost", "s3.amazonaws.com", "s3-eu-west-1.amazonaws.com", ""}

\* What auth.NewSigner may return: nil or an error.
NewSignerErrs == {"", "bad access key"}

\* The parameters of a request at most.
MaxParams == 2

\* U+D0C0 U+CF54 in UTF-8 (six bytes), "b&az=", "marker", "a b"
ParamKeys ==
    {<<237, 131, 128, 236, 189, 148>>, <<98, 38, 97, 122, 61>>,
     <<109, 97, 114, 107, 101, 114>>, <<97, 32, 98>>}

\* "burrito", "qu ?x", "taco burrito", "", "~-_.+%"
ParamValues ==
    {<<98, 117, 114, 114, 105, 116, 111>>, <<113, 117, 32, 63, 120>>,
     <<116, 97, 99, 111, 32, 98, 117, 114, 114, 105, 116, 111>>, <<>>,
     <<126, 45, 95, 46, 43, 37>>}

ParamMaps ==
    UNION {[ks -> ParamValues] : ks \in {x \in SUBSET ParamKeys : Cardinality(x) <= MaxParams}}

CallNewConn(endpoint) ==
    /\ arg = NoArg
    /\ arg' = [fn |-> "NewConn", endpoint |-> endpoint]
    /\ out' = NewConn(endpoint)
    /\ UNCHANGED <<bucket, pc, op, key, data, stream, given, nowRet, req, signLog, signRet,
                   sendLog, sendRet, resp, bodyReads, ret, store, history, pager, writers,
                   parked>>

CallOpenBucket(name, region, signerErr) ==
    /\ arg = NoArg
    /\ arg' = [fn |-> "OpenBucket", name |-> name, region |-> region,
               signerErr |-> signerErr]
    /\ out' = OpenBucket(name, region, signerErr)
    /\ UNCHANGED <<bucket, pc, op, key, data, stream, given, nowRet, req, signLog, signRet,
                   sendLog, sendRet, resp, bodyReads, ret, store, history, pager, writers,
                   parked>>

CallMakeRawQuery(params) ==
    /\ arg = NoArg
    /\ arg' = [fn |-> "makeRawQuery", params |-> params]
    /\ out' = [query |-> makeRawQuery([NoReq EXCEPT !.Parameters = params])]
    /\ UNCHANGED <<bucket, pc, op, key, data, stream, given, nowRet, req, signLog, signRet,
                   sendLog, sendRet, resp, bodyReads, ret, store, history, pager, writers,
                   parked>>

NextConn ==
    \/ \E sch \in Schemes, h \in Hosts : CallNewConn([Scheme |-> sch, Host |-> h])
    \/ \E n \in BucketNames, h \in Hosts, e \in NewSignerErrs : CallOpenBucket(n, h, e)
    \/ \E m \in ParamMaps : CallMakeRawQuery(Some(m))
    \/ CallMakeRawQuery(Nil)

SpecConn == Init /\ [][NextConn]_vars

----------------------------------------------------------------------------
(* What the documentation says of keys: UTF-8 as the Unicode standard      *)
(* defines it (a string is well formed when every byte that is not a       *)
(* continuation byte starts a well-formed sequence that ends where the     *)
(* next one starts), and the characters of XML 1.0, section 2.2.           *)

SeqLen(b) ==
    IF b <= 127 THEN 1
    ELSE IF b \in 194..223 THEN 2
    ELSE IF b \in 224..239 THEN 3
    ELSE IF b \in 240..244 THEN 4
    ELSE 0

SecondByteOk(b1, b2) ==
    IF b1 = 224 THEN b2 \in 160..191
    ELSE IF b1 = 237 THEN b2 \in 128..159
    ELSE IF b1 = 240 THEN b2 \in 144..191
    ELSE IF b1 = 244 THEN b2 \in 128..143
    ELSE b2 \in 128..191

Starts(s) == {i \in 1..Len(s) : s[i] \notin 128..191}

WellFormedAt(s, i) ==
    LET n == SeqLen(s[i])
    IN  /\ n > 0
        /\ i + n - 1 <= Len(s)
        /\ n >= 2 => SecondByteOk(s[i], s[i + 1])
        /\ \A j \in (i + 2)..(i + n - 1) : s[j] \in 128..191
        /\ i + n <= Len(s) => s[i + n] \notin 128..191

IsUtf8(s) ==
    /\ s # <<>> => 1 \in Starts(s)
    /\ \A i \in Starts(s) : WellFormedAt(s, i)

\* The codepoint a well-formed sequence encodes.
CodepointAt(s, i) ==
    LET n == SeqLen(s[i])
    IN  IF n = 1 THEN s[i]
        ELSE IF n = 2 THEN (s[i] % 32) * 64 + (s[i + 1] % 64)
        ELSE IF n = 3 THEN (s[i] % 16) * 4096 + (s[i + 1] % 64) * 64 + (s[i + 2] % 64)
        ELSE (s[i] % 8) * 262144 + (s[i + 1] % 64) * 4096 + (s[i + 2] % 64) * 64
             + (s[i + 3] % 64)

XmlChar(c) ==
    \/ c \in {9, 10, 13}
    \/ c \in 32..55295
    \/ c \in 57344..65533
    \/ c \in 65536..1114111

IllegalAt(s) == {i \in Starts(s) : ~XmlChar(CodepointAt(s, i))}

\* The first codepoint of a UTF-8 string that is no character of XML.
FirstIllegal(s) == CodepointAt(s, CHOOSE i \in IllegalAt(s) : \A j \in IllegalAt(s) : i <= j)

KeyFacts(k) ==
    LET utf8 == IsUtf8(k)
    IN  [utf8 |-> utf8,
         illegal |-> utf8 /\ IllegalAt(k) # {},
         first |-> IF utf8 /\ IllegalAt(k) # {} THEN FirstIllegal(k) ELSE -1,
         valid |-> k # <<>> /\ Len(k) <= 1024 /\ utf8 /\ IllegalAt(k) = {}]

\* The facts of the keys of each specification, worked out once.
Facts == [k \in Keys \cup EdgeKeys |-> KeyFacts(k)]

TooLongMsg == "Keys may be no longer than 1024 bytes."
NotUtf8Msg == "Keys must be valid UTF-8."
EmptyMsg == "Keys must be non-empty."
CodepointMsg == "Key contains invalid codepoint: %U"

ValidationMsgs == {TooLongMsg, NotUtf8Msg, EmptyMsg, CodepointMsg}

\* A method has been called and has not yet handed back its result.
Running == pc # "idle"

\* The call is one whose key must be a valid key.
KeyChecked == Running /\ ~(op = "ListKeys" /\ key = <<>>)

----------------------------------------------------------------------------
(* C1 *)

\* C1: no call with a key that fails validation reaches the Signer or the
\* Connection: whenever Sign or SendRequest has been called, the key of the
\* call is a valid key (or the empty prevKey of ListKeys), and a call with any
\* other key has returned a validation error with neither collaborator called.
C1_ValidationBeforeCollaborators ==
    /\ (signLog # <<>> \/ sendLog # <<>>) =>
           (Facts[key].valid \/ (op = "ListKeys" /\ key = <<>>))
    /\ (KeyChecked /\ ~Facts[key].valid) =>
           /\ pc = "done"
           /\ ret.err.fmt \in ValidationMsgs
           /\ signLog = <<>>
           /\ sendLog = <<>>
           /\ ret.data = Nil /\ ret.header = Nil /\ ret.keys = Nil

\* Put was called with a key holding U+0000 and returned.
C1_Witness ==
    /\ pc = "done"
    /\ op = "Put"
    /\ key = <<97, 0>>
    /\ signLog = <<>>
    /\ ret.err.fmt = CodepointMsg

----------------------------------------------------------------------------
(* C2 *)

\* C2: SendRequest is called only after Sign has returned success, with the
\* request as the Signer left it; Sign is called at most once and SendRequest
\* at most once, and exactly once by the time a call that passed validation
\* and signing returns.
C2_SignThenSendOnce ==
    /\ Len(signLog) <= 1
    /\ Len(sendLog) <= 1
    /\ Len(signRet) <= Len(signLog)
    /\ sendLog # <<>> =>
           /\ Len(signRet) = 1
           /\ signRet[1].err = ""
           /\ sendLog[1].req = Mutate(signLog[1].req, signRet[1].did)
           /\ sendLog[1].req = req
    /\ (signRet # <<>> /\ signRet[1].err = "") => Len(sendLog) = 1
    /\ (signRet # <<>> /\ signRet[1].err # "") => sendLog = <<>>
    /\ signRet = <<>> => sendLog = <<>>
    /\ pc = "SendRequest" <=> (Len(sendLog) = 1 /\ resp = NoResp /\ ret = NoRet)

\* A call whose Signer changed the verb has returned a server error.
C2_Witness ==
    /\ pc = "done"
    /\ Len(signLog) = 1
    /\ signRet = <<[err |-> "", did |-> "verb"]>>
    /\ Len(sendLog) = 1
    /\ sendLog[1].req.Verb = "burrito"
    /\ resp.StatusCode = 500

----------------------------------------------------------------------------
(* C3 *)

\* C3: a call with a key of more than 1024 bytes, whatever else is wrong with
\* the key, returns the error about 1024 bytes without calling a collaborator;
\* a key of 1024 bytes or fewer is never refused with that error.
C3_TooLong ==
    /\ (Running /\ Len(key) > 1024) =>
           /\ pc = "done"
           /\ ret.err.fmt = TooLongMsg
           /\ signLog = <<>>
           /\ sendLog = <<>>
    /\ (Running /\ Len(key) <= 1024) => ret.err.fmt # TooLongMsg

\* ListKeys was called with 1025 bytes that are not UTF-8 and returned.
C3_Witness ==
    /\ pc = "done"
    /\ op = "ListKeys"
    /\ Len(key) = 1025
    /\ ~Facts[key].utf8
    /\ ret.err.fmt = TooLongMsg

----------------------------------------------------------------------------
(* C4 *)

\* C4: with the empty key GetObject, GetHeader, StoreObject, DeleteObject and
\* Put return the error about empty keys; ListKeys with an empty prevKey goes
\* on to build a request and call Sign; ListKeys with a prevKey that is not
\* empty calls Sign only if the prevKey is a valid key.
C4_EmptyKey ==
    /\ (Running /\ key = <<>> /\ op # "ListKeys") =>
           /\ pc = "done"
           /\ ret.err.fmt = EmptyMsg
           /\ signLog = <<>>
    /\ (Running /\ key = <<>> /\ op = "ListKeys") =>
           /\ Len(signLog) = 1
           /\ signLog[1].req.Verb = "GET"
           /\ ret.err.fmt \notin ValidationMsgs
    /\ (Running /\ key # <<>> /\ op = "ListKeys" /\ ~Facts[key].valid) =>
           /\ pc = "done"
           /\ ret.err.fmt \in ValidationMsgs
           /\ signLog = <<>>

\* ListKeys was called with the empty prevKey and is inside Sign.
C4_Witness ==
    /\ pc = "Sign"
    /\ op = "ListKeys"
    /\ key = <<>>
    /\ Len(signLog) = 1

\* StoreObject was called with the empty key and returned.
C4_WitnessStore ==
    /\ pc = "done"
    /\ op = "StoreObject"
    /\ key = <<>>
    /\ ret.err.fmt = EmptyMsg

----------------------------------------------------------------------------
(* C5 *)

\* C5, as stated: a call with a key that is not valid UTF-8 returns the error
\* about UTF-8.
C5_NotUtf8_AsStated ==
    (KeyChecked /\ ~Facts[key].utf8) =>
        /\ pc = "done"
        /\ ret.err.fmt = NotUtf8Msg

\* C5, amended: a call with a key of at most 1024 bytes that is not valid
\* UTF-8 returns the error about UTF-8 without calling a collaborator (a
\* longer key gets the error about its length).
C5_NotUtf8 ==
    (KeyChecked /\ ~Facts[key].utf8 /\ Len(key) <= 1024) =>
        /\ pc = "done"
        /\ ret.err.fmt = NotUtf8Msg
        /\ signLog = <<>>
        /\ sendLog = <<>>

\* DeleteObject was called with 'a' and a lone continuation byte and returned.
C5_Witness ==
    /\ pc = "done"
    /\ op = "DeleteObject"
    /\ key = <<97, 128>>
    /\ ret.err.fmt = NotUtf8Msg

----------------------------------------------------------------------------
(* C6 *)

\* Four hexadecimal digits after "U+", for a codepoint below U+10000.
UPlus(c) ==
    "U+" \o HexDigits[(c \div 4096) + 1] \o HexDigits[((c \div 256) % 16) + 1]
         \o HexDigits[((c \div 16) % 16) + 1] \o HexDigits[(c % 16) + 1]

NamesFirstIllegal ==
    /\ pc = "done"
    /\ ret.err.fmt = CodepointMsg
    /\ ret.err.num = Facts[key].first
    /\ ret.err.str = UPlus(Facts[key].first)
    /\ signLog = <<>>
    /\ sendLog = <<>>

\* C6, as stated: a call with a key holding a codepoint that is no character
\* of XML returns an error naming the first such codepoint as U+XXXX.
C6_IllegalCodepoint_AsStated ==
    (KeyChecked /\ Facts[key].illegal) => NamesFirstIllegal

\* C6, amended: a call with a key of at most 1024 bytes that is valid UTF-8
\* and holds a codepoint that is no character of XML returns an error naming
\* the first such codepoint as U+XXXX, without calling a collaborator.
C6_IllegalCodepoint ==
    (KeyChecked /\ Facts[key].illegal /\ Len(key) <= 1024) => NamesFirstIllegal

\* GetHeader was called with U+FFFE followed by U+0000 and returned.
C6_Witness ==
    /\ pc = "done"
    /\ op = "GetHeader"
    /\ key = <<239, 191, 190, 0>>
    /\ ret.err.str = "U+FFFE"

----------------------------------------------------------------------------
(* C7 *)

\* C7: validateKey returns nil exactly for the keys that are non-empty, at
\* most 1024 bytes long, valid UTF-8 and made of codepoints in U+0009, U+000A,
\* U+000D, U+0020..U+D7FF, U+E000..U+FFFD and U+10000..U+10FFFF.
C7_ValidateKeyIff ==
    arg.fn = "validateKey" => ((out.err = NilErr) <=> Facts[arg.key].valid)

\* validateKey accepted U+D7FF followed by U+10FFFF.
C7_Witness ==
    /\ arg.fn = "validateKey"
    /\ arg.key = <<237, 159, 191, 244, 143, 191, 191>>
    /\ out.err = NilErr

\* validateKey refused the three bytes that would encode U+DF77.
C7_WitnessSurrogate ==
    /\ arg.fn = "validateKey"
    /\ arg.key = <<237, 189, 183>>
    /\ out.err.fmt = NotUtf8Msg

----------------------------------------------------------------------------
(* C8 *)

\* C8: isLegalXmlCharacter is true exactly of U+0009, U+000A, U+000D,
\* U+0020..U+D7FF, U+E000..U+FFFD and U+10000..U+10FFFF.
C8_LegalXmlCharacter ==
    arg.fn = "isLegalXmlCharacter" => (out.legal <=> XmlChar(arg.rune))

----------------------------------------------------------------------------
(* C9 *)

\* The day, counted from 1 January 1970, of a civil date.
DaysFromCivil(y, m, d) ==
    LET yy  == IF m <= 2 THEN y - 1 ELSE y
        era == yy \div 400
        yoe == yy - era * 400
        doy == ((153 * (IF m > 2 THEN m - 3 ELSE m + 9) + 2) \div 5) + d - 1
        doe == yoe * 365 + (yoe \div 4) - (yoe \div 100) + doy
    IN  era * 146097 + doe - 719468

\* The fields d are an RFC 1123 date in UTC of the instant sec.
IsRfc1123UtcOf(d, sec) ==
    /\ d.zone = "UTC"
    /\ d.hh \in 0..23 /\ d.mm \in 0..59 /\ d.ss \in 0..59
    /\ d.day \in 1..31
    /\ \E m \in 1..12 :
         /\ d.mon = MonthNames[m]
         /\ DaysFromCivil(d.year, m, d.day) * 86400 + d.hh * 3600 + d.mm * 60 + d.ss = sec
         /\ d.wday = WeekdayNames[((DaysFromCivil(d.year, m, d.day) + 4) % 7) + 1]

VerbOf(name) ==
    IF name \in {"GetObject", "ListKeys"} THEN "GET"
    ELSE IF name = "GetHeader" THEN "HEAD"
    ELSE IF name = "DeleteObject" THEN "DELETE"
    ELSE "PUT"

\* C9: the request handed to the Signer has the verb of the operation, the
\* path /{bucket}/{key} with the bytes of the key as the caller gave them
\* (/{bucket} for ListKeys), and a Date header that is the time the Clock
\* returned, as an RFC 1123 date in UTC.
C9_VerbPathDate ==
    signLog # <<>> =>
        LET r == signLog[1].req
        IN  /\ r.Verb = VerbOf(op)
            /\ r.Path = IF op = "ListKeys"
                        THEN <<47>> \o bucket.name
                        ELSE <<47>> \o bucket.name \o <<47>> \o key
            /\ "Date" \in DOMAIN r.Headers
            /\ IsRfc1123UtcOf(r.Headers["Date"], nowRet.sec)

\* DeleteObject was called with U+00E9 under a clock eight hours behind UTC,
\* and is inside Sign with the date of the test.
C9_Witness ==
    /\ pc = "Sign"
    /\ op = "DeleteObject"
    /\ key = <<195, 169>>
    /\ nowRet.zone = "PST"
    /\ signLog[1].req.Headers["Date"] =
           [wday |-> "Mon", day |-> 18, mon |-> "Mar", year |-> 1985,
            hh |-> 15, mm |-> 33, ss |-> 17, zone |-> "UTC"]

----------------------------------------------------------------------------
(* C10 *)

\* C10: the request handed to the Signer by StoreObject, Put and DeleteObject
\* carries a Content-MD5 header that is the base64 text of the MD5 digest of
\* the whole body (of no bytes for DeleteObject); the body of StoreObject and
\* Put, read from its start, is the caller's data; the requests of GetObject,
\* GetHeader and ListKeys carry neither the header nor a body.
C10_ContentMD5 ==
    signLog # <<>> =>
        LET r == signLog[1].req
            s == signLog[1].stream
        IN  /\ op = "StoreObject" =>
                  /\ "Content-MD5" \in DOMAIN r.Headers
                  /\ r.Headers["Content-MD5"] = EncodeToString(Sum(data))
                  /\ r.Body = [kind |-> "buffer", bytes |-> data, off |-> 0]
            /\ op = "Put" =>
                  /\ "Content-MD5" \in DOMAIN r.Headers
                  /\ r.Headers["Content-MD5"] = EncodeToString(Sum(s.content))
                  /\ r.Body.kind = "stream"
            /\ op = "DeleteObject" =>
                  /\ "Content-MD5" \in DOMAIN r.Headers
                  /\ r.Headers["Content-MD5"] = EncodeToString(Sum(<<>>))
                  /\ r.Body = NoBody
            /\ op \in {"GetObject", "GetHeader", "ListKeys"} =>
                  /\ "Content-MD5" \notin DOMAIN r.Headers
                  /\ r.Body = NoBody

----------------------------------------------------------------------------
(* C11 *)

NoPayload == ret.data = Nil /\ ret.header = Nil /\ ret.keys = Nil

\* C11: when Sign returns an error, the call returns at once an error made
\* of the tag "Sign" and the text of the Signer's error, with no payload, and
\* SendRequest is not called.
C11_SignFailure ==
    (signRet # <<>> /\ signRet[1].err # "") =>
        /\ pc = "done"
        /\ ret.err.fmt = "Sign: %v"
        /\ ret.err.str = signRet[1].err
        /\ NoPayload
        /\ sendLog = <<>>
        /\ sendRet = <<>>
        /\ resp = NoResp

\* The Signer refused the request of ListKeys with "burrito".
C11_Witness ==
    /\ pc = "done"
    /\ op = "ListKeys"
    /\ signRet = <<[err |-> "burrito", did |-> "none"]>>
    /\ ret.err.str = "burrito"

----------------------------------------------------------------------------
(* C12 *)

\* C12: when SendRequest returns an error, the call returns at once an error
\* made of the tag "SendRequest" and the text of the Connection's error, with
\* no payload; no response exists and none is read, and SendRequest has been
\* called once.
C12_SendFailure ==
    (sendRet # <<>> /\ sendRet[1].err # "") =>
        /\ pc = "done"
        /\ ret.err.fmt = "SendRequest: %v"
        /\ ret.err.str = sendRet[1].err
        /\ NoPayload
        /\ Len(sendLog) = 1
        /\ Len(sendRet) = 1
        /\ resp = NoResp
        /\ bodyReads = 0

\* The Connection failed the request of GetObject with "queso".
C12_Witness ==
    /\ pc = "done"
    /\ op = "GetObject"
    /\ Len(sendLog) = 1
    /\ sendRet = <<[err |-> "queso", resp |-> NoResp]>>
    /\ ret.err.str = "queso"

----------------------------------------------------------------------------
(* C13 *)

ExpectedStatus(name) == IF name = "DeleteObject" THEN 204 ELSE 200

\* SendRequest returned a response and the call has returned.
Answered == pc = "done" /\ sendRet # <<>> /\ sendRet[1].err = ""

\* The error is a server error with the status and the whole body of r.
IsServerErrorOf(e, r) ==
    /\ e.fmt = "Error from server: %d %s"
    /\ e.num = r.StatusCode
    /\ e.bytes = r.Body.bytes

\* C13, as stated: a call returns no error only if the status is the one
\* expected (204 for DeleteObject, 200 for the others), and with any other
\* status it returns a server error with the status and the whole body.
C13_StatusMapping_AsStated ==
    Answered =>
        LET r == sendRet[1].resp
        IN  /\ ret.err = NilErr => r.StatusCode = ExpectedStatus(op)
            /\ r.StatusCode # ExpectedStatus(op) => IsServerErrorOf(ret.err, r)

\* C13, amended: a call returns no error only if the status is the one
\* expected; with any other status the body is read once, and the call
\* returns a server error with the status and the whole body if the body
\* reads to its end, and the error of the read, which tells neither, if not.
C13_StatusMapping ==
    Answered =>
        LET r == sendRet[1].resp
        IN  /\ ret.err = NilErr => r.StatusCode = ExpectedStatus(op)
            /\ r.StatusCode # ExpectedStatus(op) =>
                  /\ bodyReads = 1
                  /\ r.Body.failAt < 0 => IsServerErrorOf(ret.err, r)
                  /\ r.Body.failAt >= 0 =>
                        /\ ret.err # NilErr
                        /\ ret.err.fmt = "%s"
                        /\ ret.err.num = 0
                        /\ ret.err.bytes = <<>>

\* DeleteObject was answered 200 with the body "taco" and returned the server
\* error of it.
C13_Witness ==
    /\ Answered
    /\ op = "DeleteObject"
    /\ resp.StatusCode = 200
    /\ resp.Body.bytes = <<116, 97, 99, 111>>
    /\ resp.Body.failAt < 0
    /\ ret.err.num = 200
    /\ ret.err.bytes = <<116, 97, 99, 111>>

\* StoreObject was answered 204 and returned a server error.
C13_WitnessStore ==
    /\ Answered
    /\ op = "StoreObject"
    /\ resp.StatusCode = 204
    /\ ret.err.num = 204

----------------------------------------------------------------------------
(* C14 *)

\* C14: against the service, GetObject answered 200 returns the bytes of
\* the response body and no error; and whenever a caller's StoreObject(k, d)
\* is followed at once by its GetObject(k), that GetObject returns no error
\* and exactly d, be d empty or not.
C14_RoundTrip ==
    /\ (Answered /\ op = "GetObject" /\ resp.StatusCode = 200) =>
           /\ ret.err = NilErr
           /\ ret.data = [isNil |-> FALSE, val |-> resp.Body.bytes]
    /\ \A i \in 1..(Len(history) - 1) :
           (/\ history[i].op = "StoreObject"
            /\ history[i + 1].op = "GetObject"
            /\ history[i + 1].key = history[i].key) =>
               /\ history[i + 1].ret.err = NilErr
               /\ history[i + 1].ret.data = [isNil |-> FALSE, val |-> history[i].data]

\* The caller stored three bytes under U+00E9 and got them back.
C14_Witness ==
    /\ Len(history) = 2
    /\ history[1].op = "StoreObject"
    /\ history[1].key = <<195, 169>>
    /\ history[1].data = <<0, 222, 173>>
    /\ history[2].op = "GetObject"
    /\ history[2].key = <<195, 169>>
    /\ history[2].ret.data.val = <<0, 222, 173>>

\* The caller stored no bytes under "a" and got no bytes back.
C14_WitnessEmpty ==
    /\ Len(history) = 2
    /\ history[1].op = "StoreObject"
    /\ history[1].key = <<97>>
    /\ history[1].data = <<>>
    /\ history[2].op = "GetObject"
    /\ history[2].key = <<97>>
    /\ history[2].ret.data = [isNil |-> FALSE, val |-> <<>>]
    /\ history[2].ret.err = NilErr

----------------------------------------------------------------------------
(* C15 *)

\* C15: against the service every StoreObject of the caller is answered 200
\* and returns no error, whatever calls went before it, and hands the Signer
\* a PUT of /{bucket}/{key} with the data as its body and the base64 MD5 of
\* the data as its Content-MD5; two calls with the same key and data hand
\* over the same verb, path, body and Content-MD5 and return the same.
C15_StoreIdempotent ==
    /\ \A i \in 1..Len(history) :
           history[i].op = "StoreObject" =>
               /\ history[i].status = 200
               /\ history[i].ret = NoRet
               /\ history[i].Verb = "PUT"
               /\ history[i].Path = <<47>> \o bucket.name \o <<47>> \o history[i].key
               /\ history[i].Body = [kind |-> "buffer", bytes |-> history[i].data, off |-> 0]
               /\ history[i].md5 = EncodeToString(Sum(history[i].data))
    /\ \A i, j \in 1..Len(history) :
           (/\ history[i].op = "StoreObject"
            /\ history[j].op = "StoreObject"
            /\ history[i].key = history[j].key
            /\ history[i].data = history[j].data) =>
               history[i] = history[j]

\* The caller stored the same three bytes under "a" in every call it made,
\* and made more than one.
C15_Witness ==
    /\ Len(history) >= 2
    /\ \A i \in 1..Len(history) :
           /\ history[i].op = "StoreObject"
           /\ history[i].key = <<97>>
           /\ history[i].data = <<0, 222, 173>>
           /\ history[i].ret.err = NilErr

----------------------------------------------------------------------------
(* C16 *)

\* C16: a call that returns an error returns no payload with it: no data,
\* no header and no keys.
C16_AllOrNothing ==
    (pc = "done" /\ ret.err # NilErr) => NoPayload

----------------------------------------------------------------------------
(* C17 *)

\* C17: the request ListKeys hands to the Signer has a map of parameters
\* that holds "marker" exactly when prevKey is not empty, with the bytes of
\* prevKey as its value, and holds nothing else.
C17_Marker ==
    (signLog # <<>> /\ op = "ListKeys") =>
        LET p == signLog[1].req.Parameters
        IN  /\ ~p.isNil
            /\ "marker" \in DOMAIN p.val <=> key # <<>>
            /\ key # <<>> => p.val["marker"] = key
            /\ DOMAIN p.val \subseteq {"marker"}

\* ListKeys was called with U+00E9 and is inside Sign with that marker.
C17_Witness ==
    /\ pc = "Sign"
    /\ op = "ListKeys"
    /\ key = <<195, 169>>
    /\ signLog[1].req.Parameters = Some("marker" :> <<195, 169>>)

\* ListKeys was called with the empty prevKey and is inside Sign with no
\* parameter.
C17_WitnessEmpty ==
    /\ pc = "Sign"
    /\ op = "ListKeys"
    /\ key = <<>>
    /\ signLog[1].req.Parameters = Some(EmptyMap)

----------------------------------------------------------------------------
(* C18 *)

\* Listings of no key, of "bar" and "baz", and of "baz", "bar" and "baz".
Listings ==
    {<<>>,
     <<<<98, 97, 114>>, <<98, 97, 122>>>>,
     <<<<98, 97, 122>>, <<98, 97, 114>>, <<98, 97, 122>>>>}

\* ListKeys was answered 200 with a body that reads to its end.
Listed ==
    /\ Answered
    /\ op = "ListKeys"
    /\ resp.StatusCode = 200
    /\ resp.Body.failAt < 0

\* C18: answered 200 with a ListBucketResult document, bare or with a
\* prolog, a namespace and other elements, ListKeys returns the Key of each
\* Contents in the order of the document, repeated keys repeated, and no
\* error; with no Contents it returns an empty sequence that is not nil.
C18_KeysInOrder ==
    \A ks \in Listings :
        (Listed /\ resp.Body.bytes \in {ListingDoc(ks), FullListingDoc(ks)}) =>
            /\ ret.err = NilErr
            /\ ret.keys = [isNil |-> FALSE, val |-> ks]
            /\ ret.data = Nil
            /\ ret.header = Nil

\* ListKeys returned "baz", "bar", "baz" from the full document.
C18_Witness ==
    /\ Listed
    /\ resp.Body.bytes =
           FullListingDoc(<<<<98, 97, 122>>, <<98, 97, 114>>, <<98, 97, 122>>>>)
    /\ ret.keys.val = <<<<98, 97, 122>>, <<98, 97, 114>>, <<98, 97, 122>>>>

\* ListKeys returned an empty sequence from the listing without Contents.
C18_WitnessEmpty ==
    /\ Listed
    /\ resp.Body.bytes = ListingDoc(<<>>)
    /\ ret.keys = [isNil |-> FALSE, val |-> <<>>]

----------------------------------------------------------------------------
(* C19 *)

\* Bodies that are not XML documents: nothing, "taco", a listing cut short.
MalformedBodies == {<<>>, <<116, 97, 99, 111>>, CutShortDoc}

\* s occurs in b.
Contains(b, s) ==
    \E i \in 0..(Len(b) - Len(s)) : SubSeq(b, i + 1, i + Len(s)) = s

\* C19: answered 200 with a body that is not XML, ListKeys returns no keys
\* and an "Invalid data from server" error with the parser's error and the
\* bytes of the body; with a document whose root is FooBar it returns no keys
\* and an "Invalid data from server" error with the bytes of the body, the
\* name FooBar among them.
C19_ProtocolError ==
    /\ (Listed /\ resp.Body.bytes \in MalformedBodies) =>
           /\ ret.keys = Nil
           /\ ret.err.fmt = "Invalid data from server (%s): %s"
           /\ ret.err.str \in {"EOF", "XML syntax error: unexpected EOF"}
           /\ ret.err.bytes = resp.Body.bytes
    /\ (Listed /\ resp.Body.bytes = WrongRootDoc) =>
           /\ ret.keys = Nil
           /\ ret.err.fmt = "Invalid data from server: %s"
           /\ ret.err.bytes = resp.Body.bytes
           /\ Contains(ret.err.bytes, <<70, 111, 111, 66, 97, 114>>)

----------------------------------------------------------------------------
(* C20 *)

\* C20: the caller paging through a bucket of valid keys that no one writes
\* to comes to an empty page and stops, and then, and from then on, the pages
\* it was given, one after the other, are the keys of the bucket in ascending
\* order, each of them once.
C20_Pagination ==
    <>[](/\ pager.phase = "stopped"
         /\ pager.pages = Ascending(KeysOf(store, bucket.name)))

\* The caller stopped after two pages, of two keys and of one, and an empty
\* page.
C20_Witness ==
    /\ pager.phase = "stopped"
    /\ pager.calls = 2
    /\ pager.pages = <<<<97>>, <<97, 195, 169>>, <<195, 169>>>>
    /\ pager.marker = <<195, 169>>

----------------------------------------------------------------------------
(* C24 *)

\* The Seek calls of the stream Put was given all succeed.
SeeksSucceed == \A i \in 1..Len(given.seekFail) : ~given.seekFail[i]

\* Reading the stream Put was given fails before its end.
ReadFails == given.readFailAt >= 0 /\ given.readFailAt <= Len(given.content)

\* C24: when Put is called with a valid key and a stream whose Seek calls
\* succeed and whose Read fails, Put returns an error, and neither the Signer
\* nor the Connection is called.
C24_DigestFailure ==
    (op = "Put" /\ KeyErr[key] = NilErr /\ SeeksSucceed /\ ReadFails) =>
        /\ pc = "done"
        /\ ret.err # NilErr
        /\ signLog = <<>>
        /\ sendLog = <<>>

----------------------------------------------------------------------------
(* C25 *)

\* The first Seek of the stream Put was given succeeds.
FirstSeekSucceeds == given.seekFail = <<>> \/ ~given.seekFail[1]

\* The second one fails.
RewindFails == Len(given.seekFail) >= 2 /\ given.seekFail[2]

\* What the Signer or the Connection was handed by Put: the caller's stream
\* as the body, at offset 0.
HandedRewound(seen) ==
    /\ seen.req.Body = StreamBody
    /\ seen.stream.content = given.content
    /\ seen.stream.pos = 0

\* C25: the Signer and the Connection are handed by Put a request whose body
\* is the caller's stream at offset 0, wherever the stream was when Put was
\* called; once the first Seek of encodeMD5 has succeeded the stream is back
\* at offset 0 when encodeMD5 returns, whether the digest was computed or
\* reading failed, unless the rewinding Seek fails, and then Put returns that
\* error and calls neither the Signer nor the Connection.
C25_Rewound ==
    (op = "Put" /\ KeyErr[key] = NilErr) =>
        /\ \A i \in 1..Len(signLog) : HandedRewound(signLog[i])
        /\ \A i \in 1..Len(sendLog) : HandedRewound(sendLog[i])
        /\ (FirstSeekSucceeds /\ ~RewindFails) =>
               /\ stream.pos = 0
               /\ stream.content = given.content
        /\ (FirstSeekSucceeds /\ RewindFails) =>
               /\ pc = "done"
               /\ ret.err = StreamErr
               /\ signLog = <<>>
               /\ sendLog = <<>>

\* Put was called with a stream at its end, and the Connection was handed the
\* stream at offset 0.
C25_Witness ==
    /\ op = "Put"
    /\ given.content = <<0, 222, 173>>
    /\ given.pos = 3
    /\ ~ReadFails
    /\ pc = "SendRequest"
    /\ sendLog[1].req.Body = StreamBody
    /\ sendLog[1].stream.pos = 0

\* Reading failed after the first byte, and the stream is back at offset 0.
C25_WitnessReadFails ==
    /\ op = "Put"
    /\ KeyErr[key] = NilErr
    /\ given.content = <<0, 222, 173>>
    /\ given.pos = 3
    /\ given.readFailAt = 1
    /\ SeeksSucceed
    /\ stream.pos = 0

\* The rewinding Seek failed, and Put returned its error.
C25_WitnessRewindFails ==
    /\ op = "Put"
    /\ KeyErr[key] = NilErr
    /\ FirstSeekSucceeds
    /\ RewindFails
    /\ pc = "done"
    /\ ret.err = StreamErr
    /\ signLog = <<>>

----------------------------------------------------------------------------
(* C26 *)

\* The call was answered, read the body of the response, and reading failed.
ReadFailed ==
    /\ Answered
    /\ bodyReads > 0
    /\ resp.Body.failAt >= 0

\* C26: when reading the body of the response fails, in serverError after a
\* status that is not the expected one, in GetObject or in ListKeys, the
\* call returns the error of the read as it is: no server error, no "Invalid
\* data from server" error, and not nil.
C26_ReadFailure ==
    ReadFailed =>
        /\ ret.err = ReadBody(resp).err
        /\ ret.err # NilErr
        /\ ret.err.fmt \notin {"Error from server: %d %s",
                                "Invalid data from server (%s): %s",
                                "Invalid data from server: %s"}
        /\ ret.err.num # resp.StatusCode

\* DeleteObject was answered 500 with a body that failed to read.
C26_Witness ==
    /\ ReadFailed
    /\ op = "DeleteObject"
    /\ resp.StatusCode = 500
    /\ resp.Body.bytes = <<116, 97, 99, 111>>
    /\ ret.err = ReadErr

\* GetObject was answered 200 with a body that failed to read.
C26_WitnessGetObject ==
    /\ ReadFailed
    /\ op = "GetObject"
    /\ resp.StatusCode = 200
    /\ ret.err = ReadErr

\* ListKeys was answered 200 with a listing that failed to read.
C26_WitnessListKeys ==
    /\ ReadFailed
    /\ op = "ListKeys"
    /\ resp.StatusCode = 200
    /\ resp.Body.bytes = ListingDoc(<<<<98, 97, 114>>, <<98, 97, 122>>>>)
    /\ ret.err = ReadErr
    /\ ret.keys = Nil

----------------------------------------------------------------------------
(* C22 *)

\* C22: NewConn returns a connection to the endpoint and a nil error when
\* the scheme is "http" or "https", and otherwise no connection and an
\* "Unsupported scheme" error that holds the scheme; OpenBucket never fails
\* with the error of NewConn.
C22_Scheme ==
    /\ arg.fn = "NewConn" =>
           /\ out.err = NilErr <=> arg.endpoint.Scheme \in {"http", "https"}
           /\ out.err = NilErr =>
                  /\ ~out.c.isNil
                  /\ out.c.val.endpoint = arg.endpoint
           /\ out.err # NilErr =>
                  /\ out.c.isNil
                  /\ out.err.fmt = "Unsupported scheme: %s"
                  /\ out.err.str = arg.endpoint.Scheme
    /\ arg.fn = "OpenBucket" =>
           /\ out.err.fmt # "http.NewConn: %v"
           /\ out.err = NilErr =>
                  /\ ~out.bucket.isNil
                  /\ out.bucket.val.httpConn.endpoint = [Scheme |-> "https", Host |-> arg.region]

\* NewConn refused the scheme "taco".
C22_Witness ==
    /\ arg.fn = "NewConn"
    /\ arg.endpoint = [Scheme |-> "taco", Host |-> "localhost"]
    /\ out.c.isNil
    /\ out.err = Errorf("Unsupported scheme: %s", "taco", 0, <<>>)

\* NewConn refused the empty scheme.
C22_WitnessEmpty ==
    /\ arg.fn = "NewConn"
    /\ arg.endpoint.Scheme = ""
    /\ out.c.isNil
    /\ out.err.str = ""

\* NewConn took an https endpoint.
C22_WitnessHttps ==
    /\ arg.fn = "NewConn"
    /\ arg.endpoint.Scheme = "https"
    /\ out = [c |-> Some([endpoint |-> arg.endpoint]), err |-> NilErr]

\* OpenBucket returned a bucket.
C22_WitnessOpenBucket ==
    /\ arg.fn = "OpenBucket"
    /\ arg.region = "s3-eu-west-1.amazonaws.com"
    /\ out.err = NilErr
    /\ ~out.bucket.isNil

----------------------------------------------------------------------------
(* C23 *)

\* The parameters U+D0C0 U+CF54 = "burrito" and "b&az=" = "qu ?x".
EscapingParams ==
    (<<237, 131, 128, 236, 189, 148>> :> <<98, 117, 114, 114, 105, 116, 111>>)
    @@ (<<98, 38, 97, 122, 61>> :> <<113, 117, 32, 63, 120>>)

\* %ED%83%80%EC%BD%94=burrito&b%26az%3D=qu%20%3Fx
EscapingQuery ==
    <<37, 69, 68, 37, 56, 51, 37, 56, 48, 37, 69, 67, 37, 66, 68, 37, 57, 52, 61,
      98, 117, 114, 114, 105, 116, 111, 38,
      98, 37, 50, 54, 97, 122, 37, 51, 68, 61,
      113, 117, 37, 50, 48, 37, 51, 70, 120>>

\* C23: the query made of a request's parameters has no '+' in it (a space
\* is written %20), and for the parameters U+D0C0 U+CF54 = "burrito" and
\* "b&az=" = "qu ?x" it is %ED%83%80%EC%BD%94=burrito&b%26az%3D=qu%20%3Fx.
C23_QueryEncoding ==
    arg.fn = "makeRawQuery" =>
        /\ \A i \in 1..Len(out.query) : out.query[i] # 43
        /\ (~arg.params.isNil /\ arg.params.val = EscapingParams) =>
               out.query = EscapingQuery

----------------------------------------------------------------------------
(* C21 *)

\* The keys of S after the marker m.
After(S, m) == {k \in S : Less(m, k)}

\* p is the first keys of S after m, one at least; or there is none and p is
\* empty.
FirstKeysAfter(p, S, m) ==
    IF p = <<>> THEN After(S, m) = {}
    ELSE /\ Len(p) <= Cardinality(After(S, m))
         /\ p = SubSeq(Ascending(After(S, m)), 1, Len(p))

\* The keys the other clients deleted, and the keys the bucket held all the
\* time since the listing began: those of the start never deleted.
Deleted == {writers.log[i].key : i \in {j \in 1..Len(writers.log) : writers.log[j].kind = "delete"}}

Kept == writers.start \ Deleted

Occurrences(k, p) == Cardinality({i \in 1..Len(p) : p[i] = k})

\* C21: while other clients store and delete, the keys a call of ListKeys
\* returns with no error are the first keys after prevKey the bucket held
\* at one of the instants of the call (none if it returns none); and when
\* the caller has stopped, each key the bucket held all the time of the
\* listing is among the pages once.
C21_SnapshotPerCall ==
    /\ (pc = "done" /\ op = "ListKeys" /\ ret.err = NilErr) =>
           \E S \in writers.snaps : FirstKeysAfter(ret.keys.val, S, key)
    /\ pager.phase = "stopped" =>
           \A k \in Kept : Occurrences(k, pager.pages) = 1

\* A call returned the keys of an instant after its first: the bucket held
\* U+00E9 when ListKeys("") was called, U+00E9 was deleted and "a" stored
\* while the request was on its way, and the page is "a".
C21_Witness ==
    /\ pc = "done"
    /\ op = "ListKeys"
    /\ key = <<>>
    /\ ret.err = NilErr
    /\ ret.keys.val = <<<<97>>>>
    /\ writers.start = {<<195, 169>>}
    /\ writers.log = <<[kind |-> "delete", key |-> <<195, 169>>],
                       [kind |-> "store", key |-> <<97>>]>>
    /\ writers.snaps = {{<<195, 169>>}, {}, {<<97>>}}

\* The caller stopped, and a key stored while it paged is among its pages.
C21_WitnessAddedReturned ==
    /\ pager.phase = "stopped"
    /\ writers.log = <<[kind |-> "store", key |-> <<195, 169>>]>>
    /\ <<195, 169>> \notin writers.start
    /\ Occurrences(<<195, 169>>, pager.pages) = 1

\* The caller stopped, and a key stored while it paged, and there since, is
\* not among its pages.
C21_WitnessAddedMissed ==
    /\ pager.phase = "stopped"
    /\ writers.log = <<[kind |-> "store", key |-> <<97>>]>>
    /\ <<97>> \notin writers.start
    /\ <<97>> \in KeysOf(store, bucket.name)
    /\ Occurrences(<<97>>, pager.pages) = 0
    /\ pager.pages # <<>>

\* The caller stopped, and a key deleted while it paged is among its pages.
C21_WitnessDeletedReturned ==
    /\ pager.phase = "stopped"
    /\ writers.log = <<[kind |-> "delete", key |-> <<97>>]>>
    /\ <<97>> \in writers.start
    /\ Occurrences(<<97>>, pager.pages) = 1

\* The caller stopped, and a key deleted while it paged, after its first
\* page, is not among its pages.
C21_WitnessDeletedMissed ==
    /\ pager.phase = "stopped"
    /\ writers.log = <<[kind |-> "delete", key |-> <<195, 169>>]>>
    /\ <<195, 169>> \in writers.start
    /\ Occurrences(<<195, 169>>, pager.pages) = 0
    /\ pager.pages # <<>>

\* The caller stopped, and its pages are the keys of no instant: after the
\* first page "a" was deleted and then "aa" stored, so the bucket never held
\* "a" and "aa" together as the pages have it.
C21_WitnessNoInstant ==
    /\ pager.phase = "stopped"
    /\ writers.start = {<<97>>, <<195, 169>>}
    /\ writers.log = <<[kind |-> "delete", key |-> <<97>>],
                       [kind |-> "store", key |-> <<97, 97>>]>>
    /\ pager.pages = <<<<97>>, <<97, 97>>, <<195, 169>>>>

----------------------------------------------------------------------------
(* C27 *)

\* What a call with the locals l does before it calls the Signer, from its
\* arguments, the bucket and the time the Clock returned: the error it
\* returns at once, or the request it builds and the stream behind it.
Alone(l) ==
    LET md5   == encodeMD5(l.given)
        early == IF KeyErr[l.key] # NilErr /\ ~(l.op = "ListKeys" /\ l.key = <<>>)
                 THEN KeyErr[l.key]
                 ELSE IF l.op = "Put" THEN md5.err
                 ELSE NilErr
        date  == "Date" :> DateHeader(l.nowRet)
    IN  [early  |-> early,
         stream |-> IF l.op = "Put" /\ KeyErr[l.key] = NilErr THEN md5.body ELSE l.given,
         req    |->
            [Verb |-> VerbOf(l.op),
             Path |-> IF l.op = "ListKeys" THEN BucketPath(bucket.name)
                      ELSE ObjectPath(bucket.name, l.key),
             Headers |->
                 IF l.op = "StoreObject"
                 THEN date @@ ("Content-MD5" :> EncodeToString(Sum(l.data)))
                 ELSE IF l.op = "DeleteObject"
                 THEN date @@ ("Content-MD5" :> EncodeToString(Sum(<<>>)))
                 ELSE IF l.op = "Put" THEN date @@ ("Content-MD5" :> md5.result)
                 ELSE date,
             Parameters |->
                 IF l.op # "ListKeys" THEN Nil
                 ELSE IF l.key = <<>> THEN Some(EmptyMap)
                 ELSE Some("marker" :> l.key),
             Body |-> IF l.op = "StoreObject" THEN NewBuffer(l.data)
                      ELSE IF l.op = "Put" THEN StreamBody
                      ELSE NoBody]]

\* The locals l are those of a call that ran alone and was given the same
\* answers by the Clock, the Signer and the Connection.
AsAlone(l) ==
    l.op # "none" =>
        LET a == Alone(l)
        IN  IF a.early # NilErr
            THEN /\ l.pc = "done"
                 /\ l.ret = [NoRet EXCEPT !.err = a.early]
                 /\ l.signLog = <<>>
                 /\ l.sendLog = <<>>
            ELSE /\ l.signLog = <<Seen(a.req, a.stream)>>
                 /\ l.stream = a.stream
                 /\ IF l.signRet = <<>>
                    THEN l.pc = "Sign" /\ l.req = a.req /\ l.sendLog = <<>>
                    ELSE IF l.signRet[1].err # ""
                    THEN /\ l.pc = "done"
                         /\ l.ret = [NoRet EXCEPT
                                        !.err = Errorf("Sign: %v", l.signRet[1].err, 0, <<>>)]
                         /\ l.req = a.req
                         /\ l.sendLog = <<>>
                    ELSE /\ l.req = Mutate(a.req, l.signRet[1].did)
                         /\ l.sendLog = <<Seen(l.req, a.stream)>>
                         /\ IF l.sendRet = <<>>
                            THEN l.pc = "SendRequest"
                            ELSE IF l.sendRet[1].err # ""
                            THEN /\ l.pc = "done"
                                 /\ l.ret = [NoRet EXCEPT
                                                !.err = Errorf("SendRequest: %v",
                                                               l.sendRet[1].err, 0, <<>>)]
                            ELSE /\ l.pc = "done"
                                 /\ l.resp = l.sendRet[1].resp
                                 /\ l.ret = Interpret(l.op, l.resp)

\* C27: no step changes the bucket, and with the steps of two callers of
\* one bucket in any order, what each call hands the Signer and the
\* Connection and what it returns are what they would be had it run alone
\* and been given the same answers.
C27_Independent ==
    /\ [](AsAlone(Locals) /\ AsAlone(parked))
    /\ [][bucket' = bucket]_vars

\* One caller's StoreObject has returned nil while the other caller's
\* ListKeys, called before it, is still inside SendRequest.
C27_Witness ==
    /\ pc = "done"
    /\ op = "StoreObject"
    /\ key = <<97>>
    /\ sendLog # <<>>
    /\ sendLog[1].req.Verb = "burrito"
    /\ resp.StatusCode = 200
    /\ ret = NoRet
    /\ parked.pc = "SendRequest"
    /\ parked.op = "ListKeys"
    /\ parked.key = <<>>
    /\ parked.nowRet # nowRet
    /\ parked.req.Verb = "GET"
    /\ "Authorization" \in DOMAIN parked.req.Headers

====
